---- MODULE Spec2Model ----
(***************************************************************************)
(* Model of the two simulation engines of the repository:                  *)
(*   - Marco Polo: engine/GameEngine.ts (updateEngine, setPaused) with     *)
(*     the Player and Fish entities and the collision system;              *)
(*   - Pac-Man 3D: hooks/usePacmanGame.ts and components/Three/GameLogic.  *)
(*                                                                         *)
(* Numbers.  The source computes in IEEE doubles; the model computes in    *)
(* integers: lengths in pixels, velocities in pixels per second, times in  *)
(* milliseconds (timeRemaining, which the source keeps in seconds, is kept *)
(* in milliseconds).  Quotients are truncated toward zero (Div).           *)
(***************************************************************************)
EXTENDS Integers, Sequences, FiniteSets, TLC

(***************************************************************************)
(* Bounds of the model                                                     *)
(***************************************************************************)
\* the number of calls of a Marco Polo behaviour
MaxSteps == 3

\* the number of frames of a Pac-Man 3D behaviour
MaxFrames == 3

(***************************************************************************)
(* Arithmetic helpers                                                      *)
(***************************************************************************)
Abs(a) == IF a < 0 THEN -a ELSE a

Div(a, b) == IF a >= 0 THEN a \div b ELSE -((-a) \div b)

Min(a, b) == IF a < b THEN a ELSE b

Max(a, b) == IF a > b THEN a ELSE b

RECURSIVE SqrtIter(_, _, _)
SqrtIter(n, lo, hi) ==
    IF lo >= hi THEN lo
    ELSE LET mid == (lo + hi + 1) \div 2
         IN  IF mid * mid <= n THEN SqrtIter(n, mid, hi)
             ELSE SqrtIter(n, lo, mid - 1)

ISqrt(n) == SqrtIter(n, 0, 46340)

vec(x, y) == [x |-> x, y |-> y]

vecAdd(a, b) == [x |-> a.x + b.x, y |-> a.y + b.y]

vecSub(a, b) == [x |-> a.x - b.x, y |-> a.y - b.y]

vecMagnitudeSq(v) == v.x * v.x + v.y * v.y

vecMagnitude(v) == ISqrt(vecMagnitudeSq(v))

vecDistance(a, b) == vecMagnitude(vecSub(b, a))

vecDistanceSq(a, b) == vecMagnitudeSq(vecSub(b, a))

\* vecScale(vecNormalize(v), len): the vector of length len along v
vecDirScaled(v, len) ==
    LET mag == vecMagnitude(v)
    IN  IF mag = 0 THEN vec(0, 0)
        ELSE vec(Div(v.x * len, mag), Div(v.y * len, mag))

\* lerp(a, b, t) with t = pct / 100
lerp(a, b, pct) == a + Div((b - a) * pct, 100)

clamp(value, lo, hi) == Min(Max(value, lo), hi)

circlesCollide(a, b) ==
    LET distSq    == vecDistanceSq(vec(a.x, a.y), vec(b.x, b.y))
        radiusSum == a.radius + b.radius
    IN  distSq <= radiusSum * radiusSum

(***************************************************************************)
(* Marco Polo constants                                                   *)
(***************************************************************************)
CANVAS_WIDTH == 800

CANVAS_HEIGHT == 600

BOUNDARY_PADDING == 10

GAME_BOUNDS ==
    [minX |-> BOUNDARY_PADDING, minY |-> BOUNDARY_PADDING,
     maxX |-> CANVAS_WIDTH - BOUNDARY_PADDING,
     maxY |-> CANVAS_HEIGHT - BOUNDARY_PADDING]

\* collisionDampingPct: collisionDamping 0.5 as a percentage
PLAYER ==
    [radius |-> 20,
     startPosition |-> vec(CANVAS_WIDTH \div 2, CANVAS_HEIGHT \div 2),
     collisionDampingPct |-> 50]

\* idleChance and swimDirectionChangeChance are probabilities: the model
\* draws the outcome of each comparison with Math.random() as a boolean.
FISH ==
    [sizes |-> [small  |-> [radius |-> 12, points |-> 150],
                medium |-> [radius |-> 16, points |-> 100],
                large  |-> [radius |-> 22, points |-> 75]],
     behaviorChangeInterval |-> [min |-> 1000, max |-> 3000]]

\* comboMultiplier 0.5 and maxComboMultiplier 3 are kept in halves
SCORING ==
    [basePointsPerFish |-> 100, speedBonusMultiplier |-> 2,
     comboMultiplierHalves |-> 1, maxComboMultiplierHalves |-> 6,
     comboDuration |-> 5000, wallPenalty |-> 10]

\* gameDuration in seconds, as in the source
DIFFICULTY_CONFIG ==
    [easy   |-> [gameDuration |-> 90, fishCount |-> 5, playerSpeed |-> 180,
                 fishSpeed |-> 60, visionRadius |-> 120,
                 marcoWaveRadius |-> 300, marcoWaveDuration |-> 2000,
                 marcoCooldown |-> 2000, maxMarcoCalls |-> 15,
                 fishFleeSpeed |-> 100, fishFleeDistance |-> 150],
     medium |-> [gameDuration |-> 75, fishCount |-> 7, playerSpeed |-> 160,
                 fishSpeed |-> 80, visionRadius |-> 100,
                 marcoWaveRadius |-> 250, marcoWaveDuration |-> 1500,
                 marcoCooldown |-> 2500, maxMarcoCalls |-> 12,
                 fishFleeSpeed |-> 120, fishFleeDistance |-> 180],
     hard   |-> [gameDuration |-> 60, fishCount |-> 10, playerSpeed |-> 140,
                 fishSpeed |-> 100, visionRadius |-> 80,
                 marcoWaveRadius |-> 200, marcoWaveDuration |-> 1000,
                 marcoCooldown |-> 3000, maxMarcoCalls |-> 10,
                 fishFleeSpeed |-> 150, fishFleeDistance |-> 220]]

\* the null of targetPosition
NoTarget == [none |-> TRUE]

(***************************************************************************)
(* Inputs of a step                                                        *)
(***************************************************************************)
NoKeys ==
    [up |-> FALSE, down |-> FALSE, left |-> FALSE, right |-> FALSE,
     space |-> FALSE, escape |-> FALSE]

\* the keyboard states a step is tried with
KeyInputs ==
    { NoKeys,
      [NoKeys EXCEPT !.right = TRUE],
      [NoKeys EXCEPT !.space = TRUE],
      [NoKeys EXCEPT !.right = TRUE, !.down = TRUE, !.space = TRUE] }

\* timestamp - lastTimestamp of a step, in ms: a time running backwards, a
\* 60 Hz frame, and a stall far beyond the clamp
TimeSteps == { -500, 16, 5000 }

\* The outcomes of the Math.random() calls of one step (every fish updated
\* in the step sees the same outcomes):
\*   flee     Math.random() < 0.5                       (changeBehavior)
\*   idle     Math.random() < FISH.idleChance            (changeBehavior)
\*   redirect Math.random() < FISH.swimDirectionChangeChance (updateFish)
\*   timer    randomRange(behaviorChangeInterval)        (updateFish)
\*   offset   vecFromAngle(randomAngle(), randomRange(100, 250))
\*   ripple   Math.random() < 0.1                        (updateEngine)
RandomDraws ==
    { [flee |-> FALSE, idle |-> TRUE,  redirect |-> FALSE, timer |-> 1000,
       offset |-> vec(100, 0), ripple |-> FALSE],
      [flee |-> TRUE,  idle |-> FALSE, redirect |-> TRUE,  timer |-> 2500,
       offset |-> vec(0, -240), ripple |-> TRUE],
      [flee |-> FALSE, idle |-> FALSE, redirect |-> FALSE, timer |-> 2000,
       offset |-> vec(-150, 150), ripple |-> FALSE] }

(***************************************************************************)
(* Player entity (engine/entities/Player.ts)                               *)
(***************************************************************************)
createPlayer ==
    [position |-> PLAYER.startPosition, velocity |-> vec(0, 0),
     radius |-> PLAYER.radius, isActive |-> TRUE, isCalling |-> FALSE,
     callCooldownRemaining |-> 0, lastCallTime |-> 0]

\* the direction of the pressed keys, normalised, in thousandths
moveDirection(keys) ==
    LET dx == (IF keys.right THEN 1 ELSE 0) - (IF keys.left THEN 1 ELSE 0)
        dy == (IF keys.down THEN 1 ELSE 0) - (IF keys.up THEN 1 ELSE 0)
    IN  IF dx # 0 /\ dy # 0 THEN vec(dx * 707, dy * 707)
        ELSE vec(dx * 1000, dy * 1000)

\* deltaTime in ms (the source: seconds)
updatePlayer(player, keys, config, deltaTime, timestamp) ==
    LET moveDir == moveDirection(keys)
        targetVelocity == vec(Div(moveDir.x * config.playerSpeed, 1000),
                              Div(moveDir.y * config.playerSpeed, 1000))
        newVelocity == vec(lerp(player.velocity.x, targetVelocity.x, 15),
                           lerp(player.velocity.y, targetVelocity.y, 15))
        moved == vec(player.position.x + Div(newVelocity.x * deltaTime, 1000),
                     player.position.y + Div(newVelocity.y * deltaTime, 1000))
        lowX  == moved.x - player.radius < GAME_BOUNDS.minX
        highX == ~lowX /\ moved.x + player.radius > GAME_BOUNDS.maxX
        lowY  == moved.y - player.radius < GAME_BOUNDS.minY
        highY == ~lowY /\ moved.y + player.radius > GAME_BOUNDS.maxY
        newPosition ==
            vec(IF lowX THEN GAME_BOUNDS.minX + player.radius
                ELSE IF highX THEN GAME_BOUNDS.maxX - player.radius
                ELSE moved.x,
                IF lowY THEN GAME_BOUNDS.minY + player.radius
                ELSE IF highY THEN GAME_BOUNDS.maxY - player.radius
                ELSE moved.y)
        finalVelocity ==
            vec(IF lowX \/ highX
                THEN Div(-newVelocity.x * PLAYER.collisionDampingPct, 100)
                ELSE newVelocity.x,
                IF lowY \/ highY
                THEN Div(-newVelocity.y * PLAYER.collisionDampingPct, 100)
                ELSE newVelocity.y)
        hitWall == lowX \/ highX \/ lowY \/ highY
        newCooldown == Max(0, player.callCooldownRemaining - deltaTime)
        isCalling == player.isCalling /\ timestamp - player.lastCallTime < 500
    IN  [player EXCEPT
           !.position = newPosition,
           !.velocity = IF hitWall THEN finalVelocity ELSE newVelocity,
           !.callCooldownRemaining = newCooldown,
           !.isCalling = isCalling]

\* canCallMarco without the check of line 132
canCallMarcoUnlimited(player, marcoCallsRemaining) ==
    /\ ~player.isCalling
    /\ player.callCooldownRemaining <= 0

canCallMarco(player, marcoCallsRemaining) ==
    /\ ~player.isCalling
    /\ player.callCooldownRemaining <= 0
    /\ marcoCallsRemaining > 0

triggerMarcoCall(player, config, timestamp) ==
    [player EXCEPT !.isCalling = TRUE, !.lastCallTime = timestamp,
                   !.callCooldownRemaining = config.marcoCooldown]

(***************************************************************************)
(* Fish entity (engine/entities/Fish.ts)                                   *)
(***************************************************************************)
\* baseSpeed: the multiplier randomRange(0.8, 1.2), as a percentage
createFish(id, size, position, baseSpeed, behaviorTimer) ==
    [id |-> id, position |-> position, velocity |-> vec(0, 0),
     radius |-> FISH.sizes[size].radius, isActive |-> TRUE,
     isCaught |-> FALSE, isRevealed |-> FALSE, revealedUntil |-> 0,
     baseSpeed |-> baseSpeed, currentBehavior |-> "idle",
     behaviorTimer |-> behaviorTimer, targetPosition |-> NoTarget,
     size |-> size]

getRandomSwimTarget(currentPosition, rnd) ==
    LET target == vecAdd(currentPosition, rnd.offset)
    IN  vec(clamp(target.x, 50, CANVAS_WIDTH - 50),
            clamp(target.y, 50, CANVAS_HEIGHT - 50))

changeBehavior(fish, playerPosition, rnd) ==
    LET distToPlayer == vecDistance(fish.position, playerPosition)
    IN  IF distToPlayer < 100 /\ rnd.flee
        THEN [fish EXCEPT !.currentBehavior = "fleeing"]
        ELSE IF rnd.idle
        THEN [fish EXCEPT !.currentBehavior = "idle",
                          !.targetPosition = NoTarget]
        ELSE [fish EXCEPT !.currentBehavior = "swimming",
                          !.targetPosition =
                              getRandomSwimTarget(fish.position, rnd)]

executeSwimming(fish, config, rnd) ==
    IF fish.targetPosition = NoTarget
    THEN [fish EXCEPT !.targetPosition =
                          getRandomSwimTarget(fish.position, rnd)]
    ELSE LET toTarget == vecSub(fish.targetPosition, fish.position)
             distToTarget == vecMagnitude(toTarget)
             speed == Div(config.fishSpeed * fish.baseSpeed, 100)
             targetVelocity == vecDirScaled(toTarget, speed)
         IN  IF distToTarget < 10
             THEN [fish EXCEPT !.currentBehavior = "idle",
                               !.targetPosition = NoTarget]
             ELSE [fish EXCEPT !.velocity =
                       vec(lerp(fish.velocity.x, targetVelocity.x, 10),
                           lerp(fish.velocity.y, targetVelocity.y, 10))]

executeFleeing(fish, playerPosition, config, rnd) ==
    LET awayFromPlayer == vecSub(fish.position, playerPosition)
        distToPlayer == vecMagnitude(awayFromPlayer)
        speed == Div(config.fishFleeSpeed * fish.baseSpeed, 100)
        targetVelocity == vecDirScaled(awayFromPlayer, speed)
    IN  IF distToPlayer > config.fishFleeDistance
        THEN [fish EXCEPT !.currentBehavior = "swimming",
                          !.targetPosition =
                              getRandomSwimTarget(fish.position, rnd)]
        ELSE [fish EXCEPT !.velocity =
                  vec(lerp(fish.velocity.x, targetVelocity.x, 20),
                      lerp(fish.velocity.y, targetVelocity.y, 20))]

handleWallCollision(position, radius) ==
    vec(IF position.x - radius < GAME_BOUNDS.minX
        THEN GAME_BOUNDS.minX + radius
        ELSE IF position.x + radius > GAME_BOUNDS.maxX
        THEN GAME_BOUNDS.maxX - radius
        ELSE position.x,
        IF position.y - radius < GAME_BOUNDS.minY
        THEN GAME_BOUNDS.minY + radius
        ELSE IF position.y + radius > GAME_BOUNDS.maxY
        THEN GAME_BOUNDS.maxY - radius
        ELSE position.y)

\* updateFish, lines 310-316: the reveal runs out, the behaviour timer runs
ageFish(fish, deltaTime, timestamp) ==
    [fish EXCEPT
       !.isRevealed = IF fish.isRevealed /\ timestamp > fish.revealedUntil
                      THEN FALSE ELSE @,
       !.behaviorTimer = @ - deltaTime]

\* updateFish, lines 318-325: a new behaviour when the timer has run out
rethinkFish(fish, playerPosition, rnd) ==
    IF fish.behaviorTimer <= 0
    THEN [changeBehavior(fish, playerPosition, rnd)
              EXCEPT !.behaviorTimer = rnd.timer]
    ELSE fish

\* updateFish, lines 327-333: a swimming fish may pick a new target
redirectFish(fish, rnd) ==
    IF fish.currentBehavior = "swimming" /\ rnd.redirect
    THEN [fish EXCEPT !.targetPosition =
                          getRandomSwimTarget(fish.position, rnd)]
    ELSE fish

\* updateFish, lines 335-354: the behaviour sets the velocity
behaveFish(fish, playerPosition, config, rnd) ==
    CASE fish.currentBehavior = "idle" ->
           [fish EXCEPT !.velocity = vec(Div(fish.velocity.x * 95, 100),
                                         Div(fish.velocity.y * 95, 100))]
      [] fish.currentBehavior = "swimming" ->
           executeSwimming(fish, config, rnd)
      [] fish.currentBehavior = "fleeing" ->
           executeFleeing(fish, playerPosition, config, rnd)
      [] fish.currentBehavior = "responding" ->
           [fish EXCEPT !.velocity = vec(Div(fish.velocity.x * 90, 100),
                                         Div(fish.velocity.y * 90, 100))]

\* updateFish, lines 356-367: the fish moves and stays inside the walls
moveFish(fish, deltaTime) ==
    [fish EXCEPT !.position =
        handleWallCollision(
            vec(fish.position.x + Div(fish.velocity.x * deltaTime, 1000),
                fish.position.y + Div(fish.velocity.y * deltaTime, 1000)),
            fish.radius)]

\* deltaTime in ms
updateFish(fish, playerPosition, config, deltaTime, timestamp, rnd) ==
    IF fish.isCaught THEN fish
    ELSE moveFish(
             behaveFish(
                 redirectFish(
                     rethinkFish(ageFish(fish, deltaTime, timestamp),
                                 playerPosition, rnd),
                     rnd),
                 playerPosition, config, rnd),
             deltaTime)

triggerPoloResponse(fish, config, timestamp) ==
    IF fish.isCaught THEN fish
    ELSE [fish EXCEPT !.isRevealed = TRUE,
                      !.revealedUntil = timestamp + config.marcoWaveDuration,
                      !.currentBehavior = "responding",
                      !.behaviorTimer = 500]

catchFish(fish) ==
    [fish EXCEPT !.isCaught = TRUE, !.isActive = FALSE,
                 !.velocity = vec(0, 0)]

getFishPoints(fish) == FISH.sizes[fish.size].points

(***************************************************************************)
(* Collision system (engine/systems/collision.ts)                          *)
(***************************************************************************)
checkPlayerFishCollision(player, fish) ==
    IF ~fish.isActive \/ fish.isCaught THEN FALSE
    ELSE circlesCollide(
             [x |-> player.position.x, y |-> player.position.y,
              radius |-> player.radius],
             [x |-> fish.position.x, y |-> fish.position.y,
              radius |-> fish.radius])

\* the indices of the fish within radius of center; vecDistance <= radius
\* is compared on the squares
getFishInRadius(fishArray, center, radius) ==
    { i \in DOMAIN fishArray :
        /\ fishArray[i].isActive /\ ~fishArray[i].isCaught
        /\ vecDistanceSq(fishArray[i].position, center) <= radius * radius }


(***************************************************************************)
(* Effects system (engine/systems/effects.ts).  Only what decides whether  *)
(* an effect is still alive is kept: a sound wave's radii, the start time  *)
(* of a bubble, ripple or popup, the life of the particles of one catch    *)
(* (in thousandths; their random decay is taken as 1 per second).          *)
(***************************************************************************)
createEffects ==
    [soundWaves |-> <<>>, poloBubbles |-> <<>>, particles |-> <<>>,
     ripples |-> <<>>, scorePopups |-> <<>>]

updateSoundWaves(waves, deltaTime) ==
    LET grown == [i \in DOMAIN waves |->
                    [waves[i] EXCEPT !.currentRadius =
                                         @ + Div(400 * deltaTime, 1000)]]
        alive(w) == w.currentRadius < w.maxRadius
    IN  SelectSeq(grown, alive)

updatePoloBubbles(bubbles, timestamp) ==
    LET alive(b) == timestamp - b.startTime < 1500
    IN  SelectSeq(bubbles, alive)

updateParticles(particles, deltaTime) ==
    LET aged == [i \in DOMAIN particles |->
                   [particles[i] EXCEPT !.life = @ - deltaTime]]
        alive(q) == q.life > 0
    IN  SelectSeq(aged, alive)

updateRipples(ripples, timestamp) ==
    LET alive(r) == timestamp - r.startTime < 800
    IN  SelectSeq(ripples, alive)

updateScorePopups(popups, timestamp) ==
    LET alive(q) == timestamp - q.startTime < 1200
    IN  SelectSeq(popups, alive)

updateEffects(effects, deltaTime, timestamp) ==
    [soundWaves  |-> updateSoundWaves(effects.soundWaves, deltaTime),
     poloBubbles |-> updatePoloBubbles(effects.poloBubbles, timestamp),
     particles   |-> updateParticles(effects.particles, deltaTime),
     ripples     |-> updateRipples(effects.ripples, timestamp),
     scorePopups |-> updateScorePopups(effects.scorePopups, timestamp)]

addSoundWave(effects, maxRadius, timestamp) ==
    [effects EXCEPT !.soundWaves =
        Append(@, [currentRadius |-> 0, maxRadius |-> maxRadius,
                   startTime |-> timestamp])]

addPoloBubble(effects, timestamp) ==
    [effects EXCEPT !.poloBubbles = Append(@, [startTime |-> timestamp])]

addCatchParticles(effects) ==
    [effects EXCEPT !.particles = Append(@, [life |-> 1000])]

addRipple(effects, timestamp) ==
    [effects EXCEPT !.ripples = Append(@, [startTime |-> timestamp])]

addScorePopup(effects, points, timestamp) ==
    [effects EXCEPT !.scorePopups =
        Append(@, [points |-> points, startTime |-> timestamp])]

(***************************************************************************)
(* Game engine (engine/GameEngine.ts)                                      *)
(***************************************************************************)
\* an event handed to onEvent; the fields an event type does not carry are
\* left at "" and 0
Event(type, reason, fishId, points) ==
    [type |-> type, reason |-> reason, fishId |-> fishId, points |-> points]

\* fish: the school createFishSchool made (positions, sizes and timers are
\* random in the source)
createEngineState(difficulty, fish) ==
    LET config == DIFFICULTY_CONFIG[difficulty]
        player == createPlayer
    IN  [gameState |-> [screen |-> "playing", score |-> 0, highScore |-> 0,
                        timeRemaining |-> config.gameDuration * 1000,
                        fishCaught |-> 0, totalFish |-> config.fishCount,
                        marcoCallsRemaining |-> config.maxMarcoCalls,
                        difficulty |-> difficulty, isPaused |-> FALSE],
         config |-> config,
         player |-> player,
         fish |-> fish,
         effects |-> createEffects,
         lastTimestamp |-> 0,
         comboCount |-> 0,
         lastCatchTime |-> 0,
         previousPlayerPosition |-> player.position]

isInBounds(position, radius) ==
    /\ position.x - radius >= 10
    /\ position.x + radius <= CANVAS_WIDTH - 10
    /\ position.y - radius >= 10
    /\ position.y + radius <= CANVAS_HEIGHT - 10

\* the POLO_RESPONSE events of the fish in range, in array order, from i on
RECURSIVE PoloResponses(_, _, _)
PoloResponses(fish, inRange, i) ==
    IF i > Len(fish) THEN <<>>
    ELSE (IF i \in inRange
          THEN << Event("POLO_RESPONSE", "", fish[i].id, 0) >>
          ELSE <<>>) \o PoloResponses(fish, inRange, i + 1)

RECURSIVE AddPoloBubbles(_, _, _)
AddPoloBubbles(effects, n, timestamp) ==
    IF n = 0 THEN effects
    ELSE AddPoloBubbles(addPoloBubble(effects, timestamp), n - 1, timestamp)

handleMarcoCall(state, timestamp) ==
    LET newPlayer == triggerMarcoCall(state.player, state.config, timestamp)
        fishInRange == getFishInRadius(state.fish, state.player.position,
                                       state.config.marcoWaveRadius)
        updatedFish ==
            [i \in DOMAIN state.fish |->
                IF i \in fishInRange
                THEN [triggerPoloResponse(state.fish[i], state.config,
                                          timestamp)
                         EXCEPT !.behaviorTimer = 500]
                ELSE state.fish[i]]
        newEffects ==
            AddPoloBubbles(
                addSoundWave(state.effects, state.config.marcoWaveRadius,
                             timestamp),
                Cardinality(fishInRange), timestamp)
    IN  [state |-> [state EXCEPT
                      !.player = newPlayer,
                      !.fish = updatedFish,
                      !.effects = newEffects,
                      !.gameState.marcoCallsRemaining = @ - 1],
         events |-> PoloResponses(state.fish, fishInRange, 1)
                    \o << Event("MARCO_CALLED", "", 0, 0) >>]

\* Math.floor(basePoints * comboMultiplier * (1 + timeBonus)), computed
\* exactly: comboMultiplier in halves, times in ms
catchPoints(fish, comboCount, timeRemaining, gameDuration) ==
    LET basePoints == getFishPoints(fish)
        comboHalves == Min(2 + comboCount * SCORING.comboMultiplierHalves,
                           SCORING.maxComboMultiplierHalves)
        durationMs == gameDuration * 1000
    IN  (basePoints * comboHalves
           * (durationMs + SCORING.speedBonusMultiplier * timeRemaining))
        \div (2 * durationMs)

\* caughtOne without the score of line 332
caughtOneUnscored(acc, fish, i, points, timestamp) ==
    [state |-> [acc.state EXCEPT
                  !.gameState.fishCaught = @ + 1,
                  !.comboCount = @ + 1,
                  !.lastCatchTime = timestamp,
                  !.effects = addScorePopup(
                                  addRipple(addCatchParticles(@), timestamp),
                                  points, timestamp),
                  !.fish[i] = catchFish(fish)],
     events |-> acc.events \o
                  << Event("FISH_CAUGHT", "", fish.id, points),
                     Event("SCORE_UPDATED", "", 0,
                           acc.state.gameState.score) >>]

\* acc (newState and the events emitted so far) after fish i is caught
caughtOne(acc, fish, i, points, timestamp) ==
    [state |-> [acc.state EXCEPT
                  !.gameState.score = @ + points,
                  !.gameState.fishCaught = @ + 1,
                  !.comboCount = @ + 1,
                  !.lastCatchTime = timestamp,
                  !.effects = addScorePopup(
                                  addRipple(addCatchParticles(@), timestamp),
                                  points, timestamp),
                  !.fish[i] = catchFish(fish)],
     events |-> acc.events \o
                  << Event("FISH_CAUGHT", "", fish.id, points),
                     Event("SCORE_UPDATED", "", 0,
                           acc.state.gameState.score + points) >>]

\* the fish.map of checkFishCatches from index i on; acc is newState
\* together with the events emitted so far
RECURSIVE CatchFrom(_, _, _, _)
CatchFrom(state, acc, i, timestamp) ==
    IF i > Len(state.fish) THEN acc
    ELSE IF state.fish[i].isCaught
            \/ ~checkPlayerFishCollision(state.player, state.fish[i])
    THEN CatchFrom(state, acc, i + 1, timestamp)
    ELSE CatchFrom(state,
                   caughtOne(acc, state.fish[i], i,
                             catchPoints(state.fish[i], acc.state.comboCount,
                                         state.gameState.timeRemaining,
                                         state.config.gameDuration),
                             timestamp),
                   i + 1, timestamp)

checkFishCatches(state, timestamp) ==
    CatchFrom(state, [state |-> state, events |-> <<>>], 1, timestamp)

\* clampedDelta without Math.min(deltaTime, 0.1)
clampedDeltaUnclamped(state, timestamp) ==
    IF state.lastTimestamp = 0 THEN 16 ELSE timestamp - state.lastTimestamp

\* updateEngine, lines 125-127: the time since the last step in ms, clamped
clampedDelta(state, timestamp) ==
    Min(IF state.lastTimestamp = 0 THEN 16
        ELSE timestamp - state.lastTimestamp, 100)

\* updateEngine, lines 131-138: the player position is remembered and the
\* timer runs
runTimer(state, delta) ==
    [state EXCEPT
       !.previousPlayerPosition = state.player.position,
       !.gameState.timeRemaining = Max(0, @ - delta)]

\* updateEngine, lines 141-146: the time is up
timeUp(state, timestamp) ==
    [state |-> [state EXCEPT !.gameState.screen = "gameOver",
                             !.lastTimestamp = timestamp],
     events |-> << Event("GAME_OVER", "timeout", 0, 0) >>]

\* updateEngine, lines 149-151.  From here on acc is newState together with
\* the events emitted so far
marcoStage(state, keys, timestamp) ==
    IF keys.space
       /\ canCallMarco(state.player, state.gameState.marcoCallsRemaining)
    THEN handleMarcoCall(state, timestamp)
    ELSE [state |-> state, events |-> <<>>]

\* wallStage with the penalty taken whenever the player touches a wall, and
\* without the floor of line 169
wallStageUnfloored(acc, wasInBounds) ==
    IF wasInBounds
       /\ ~isInBounds(acc.state.player.position, acc.state.player.radius + 1)
    THEN [state |-> [acc.state EXCEPT !.gameState.score =
                                          @ - SCORING.wallPenalty],
          events |-> acc.events \o << Event("WALL_COLLISION", "", 0, 0) >>]
    ELSE acc

\* updateEngine, lines 162-170: the wall penalty; wasInBounds is computed
\* from the state the step was called with
wallStage(acc, wasInBounds) ==
    IF wasInBounds
       /\ ~isInBounds(acc.state.player.position, acc.state.player.radius)
    THEN [state |-> [acc.state EXCEPT !.gameState.score =
                                          Max(0, @ - SCORING.wallPenalty)],
          events |-> acc.events \o << Event("WALL_COLLISION", "", 0, 0) >>]
    ELSE acc

\* updateEngine, lines 154-160: the player moves
playerStage(acc, keys, delta, timestamp) ==
    [acc EXCEPT !.state.player =
        updatePlayer(@, keys, acc.state.config, delta, timestamp)]

\* updateEngine, lines 173-175: the fish move
fishStage(acc, delta, timestamp, rnd) ==
    [acc EXCEPT !.state.fish =
        [i \in DOMAIN @ |->
            updateFish(@[i], acc.state.player.position, acc.state.config,
                       delta, timestamp, rnd)]]

\* the events of c after the events emitted before
withEvents(events, c) ==
    [state |-> c.state, events |-> events \o c.events]

\* updateEngine, line 178: the catches
catchStage(acc, timestamp) ==
    withEvents(acc.events, checkFishCatches(acc.state, timestamp))

\* updateEngine, lines 181-187: every fish is caught
allCaught(acc, timestamp) ==
    [state |-> [acc.state EXCEPT !.gameState.screen = "gameOver",
                                 !.lastTimestamp = timestamp],
     events |-> acc.events \o << Event("GAME_OVER", "allCaught", 0, 0) >>]

\* updateEngine, lines 190-198: the effects age, the player leaves a ripple
effectsStage(acc, delta, timestamp, rnd) ==
    [acc EXCEPT !.state.effects =
        IF vecMagnitudeSq(acc.state.player.velocity) > 50 * 50 /\ rnd.ripple
        THEN addRipple(updateEffects(@, delta, timestamp), timestamp)
        ELSE updateEffects(@, delta, timestamp)]

\* updateEngine, lines 201-207: the combo runs out, the step is stamped
finishStage(acc, timestamp) ==
    [acc EXCEPT
       !.state.comboCount =
           IF timestamp - acc.state.lastCatchTime > SCORING.comboDuration
           THEN 0 ELSE @,
       !.state.lastTimestamp = timestamp]

\* endStage without the return of lines 182-187
endStageGoesOn(acc, delta, timestamp, rnd) ==
    finishStage(effectsStage(acc, delta, timestamp, rnd), timestamp)

\* updateEngine, lines 181-207
endStage(acc, delta, timestamp, rnd) ==
    IF \A i \in DOMAIN acc.state.fish : acc.state.fish[i].isCaught
    THEN allCaught(acc, timestamp)
    ELSE finishStage(effectsStage(acc, delta, timestamp, rnd), timestamp)

\* runStep without the return of lines 141-146
runStepPastTimeout(state, timed, keys, delta, timestamp, rnd) ==
    endStage(
        catchStage(
            fishStage(
                wallStage(
                    playerStage(marcoStage(timed, keys, timestamp),
                                keys, delta, timestamp),
                    isInBounds(state.previousPlayerPosition,
                               state.player.radius)),
                delta, timestamp, rnd),
            timestamp),
        delta, timestamp, rnd)

\* updateEngine, lines 141-207; timed is the state after runTimer
runStep(state, timed, keys, delta, timestamp, rnd) ==
    IF timed.gameState.timeRemaining <= 0
    THEN timeUp(timed, timestamp)
    ELSE endStage(
             catchStage(
                 fishStage(
                     wallStage(
                         playerStage(marcoStage(timed, keys, timestamp),
                                     keys, delta, timestamp),
                         isInBounds(state.previousPlayerPosition,
                                    state.player.radius)),
                     delta, timestamp, rnd),
                 timestamp),
             delta, timestamp, rnd)

\* updateEngine without the return of lines 121-123
updateEngineWhilePaused(state, keys, timestamp, rnd) ==
    runStep(state, runTimer(state, clampedDelta(state, timestamp)),
            keys, clampedDelta(state, timestamp), timestamp, rnd)

\* rnd: the outcomes of the random draws of this step
updateEngine(state, keys, timestamp, rnd) ==
    IF state.gameState.isPaused
    THEN [state |-> [state EXCEPT !.lastTimestamp = timestamp],
          events |-> <<>>]
    ELSE runStep(state, runTimer(state, clampedDelta(state, timestamp)),
                 keys, clampedDelta(state, timestamp), timestamp, rnd)

setPaused(state, paused) ==
    [state EXCEPT !.gameState.isPaused = paused]


(***************************************************************************)
(* Pac-Man 3D.  Lengths are in thousandths of a world unit, speeds in      *)
(* thousandths of a unit per second, times in ms.  Positions and           *)
(* velocities keep their x and z components: the y component takes no part *)
(* in movement bounds or collisions.                                       *)
(***************************************************************************)
SCORES == [pellet |-> 10, powerPellet |-> 50, ghost |-> 200,
           levelComplete |-> 1000]

DIFFICULTY_CONFIGS ==
    [easy   |-> [ghostCount |-> 2, ghostSpeed |-> 3500, playerSpeed |-> 5500,
                 pelletCount |-> 60, powerPelletCount |-> 4,
                 frightenedDuration |-> 10000, lives |-> 5,
                 bounds |-> [x |-> 18000, z |-> 18000],
                 ghostSpawnDelay |-> 3000],
     medium |-> [ghostCount |-> 3, ghostSpeed |-> 4500, playerSpeed |-> 6000,
                 pelletCount |-> 80, powerPelletCount |-> 4,
                 frightenedDuration |-> 7000, lives |-> 3,
                 bounds |-> [x |-> 20000, z |-> 20000],
                 ghostSpawnDelay |-> 2000],
     hard   |-> [ghostCount |-> 4, ghostSpeed |-> 5500, playerSpeed |-> 6500,
                 pelletCount |-> 100, powerPelletCount |-> 4,
                 frightenedDuration |-> 5000, lives |-> 3,
                 bounds |-> [x |-> 22000, z |-> 22000],
                 ghostSpawnDelay |-> 1000]]

\* the difficulty Game3D is mounted with
difficulty == "medium"

config == DIFFICULTY_CONFIGS[difficulty]

worldBounds == config.bounds

v3(x, z) == [x |-> x, z |-> z]

vecAdd3(a, b) == v3(a.x + b.x, a.z + b.z)

vecSub3(a, b) == v3(a.x - b.x, a.z - b.z)

\* Vector3.length on the x-z plane, to a hundredth of a unit
length3(v) == 10 * ISqrt(Div(v.x, 10) * Div(v.x, 10)
                         + Div(v.z, 10) * Div(v.z, 10))

\* v.normalize().multiplyScalar(len); three.js leaves a zero vector zero
setLength3(v, len) ==
    LET l == length3(v)
    IN  IF l = 0 THEN v3(0, 0)
        ELSE v3(Div(v.x * len, l), Div(v.z * len, l))

\* a.lerp(b, pct / 100)
lerp3(a, b, pct) == v3(lerp(a.x, b.x, pct), lerp(a.z, b.z, pct))

\* a.addScaledVector(v, dt), dt in ms
addScaled3(a, v, dt) == v3(a.x + Div(v.x * dt, 1000), a.z + Div(v.z * dt, 1000))

\* v.clampLength(lo, hi)
clampLength3(v, lo, hi) ==
    LET l == length3(v)
    IN  IF l = 0 THEN v
        ELSE IF l < lo THEN setLength3(v, lo)
        ELSE IF l > hi THEN setLength3(v, hi)
        ELSE v

\* Math.hypot(a.x - b.x, a.z - b.z) < dist
closerThan(a, b, dist) ==
    /\ Abs(a.x - b.x) < dist
    /\ Abs(a.z - b.z) < dist
    /\ (a.x - b.x) * (a.x - b.x) + (a.z - b.z) * (a.z - b.z) < dist * dist

\* (cos, sin) of 2 * pi * index / count in thousandths, for the ghost
\* counts of the configurations
RingDirection(index, count) ==
    CASE count = 2 -> << v3(1000, 0), v3(-1000, 0) >>[index + 1]
      [] count = 3 -> << v3(1000, 0), v3(-500, 866), v3(-500, -866) >>[index + 1]
      [] count = 4 -> << v3(1000, 0), v3(0, 1000), v3(-1000, 0),
                         v3(0, -1000) >>[index + 1]

spawnDist == Min(worldBounds.x, worldBounds.z) - 2000

\* the point of the spawn ring in direction dir (thousandths)
RingPoint(dir) == v3(Div(dir.x * spawnDist, 1000), Div(dir.z * spawnDist, 1000))

\* Math.pow(2, n)
RECURSIVE Pow2(_)
Pow2(n) == IF n <= 0 THEN 1 ELSE 2 * Pow2(n - 1)

\* The outcomes of the random draws of one callback:
\*   timer   randomBetween(0.8, 1.5), the next directionTimer
\*   jitter  randomBetween(-1, 1) scaled by 0.3 (chase) or 1.5 (frightened)
\*   wander  Math.sin / Math.cos of the clock terms of the wander
\*   angle   the direction Math.random() * 2 * pi of a respawn
\*   velocity, directionTimer: the draws of createGhosts
\*   shuffle the order createPellets shuffles the grid into
PacDraws ==
    { [timer |-> 800, jitter |-> v3(-1000, 500), wander |-> v3(1000, 0),
       angle |-> v3(0, 1000), velocity |-> v3(707, 707),
       directionTimer |-> 2000, shuffle |-> "kept"],
      [timer |-> 1400, jitter |-> v3(1000, 0), wander |-> v3(-707, -707),
       angle |-> v3(-707, 707), velocity |-> v3(-1000, 0),
       directionTimer |-> 3500, shuffle |-> "reversed"] }

\* the keys of a frame
PacKeys == { NoKeys, [NoKeys EXCEPT !.right = TRUE] }

\* the time between two frames in ms: a 60 Hz frame, a slow frame at the
\* clamp of dt, and a stall (a hidden tab)
FrameDeltas == { 16, 50, 2000 }


(***************************************************************************)
(* Pac-Man 3D: entities (usePacmanGame)                                    *)
(***************************************************************************)
\* const spacing = 2.5
spacing == 2500

\* the corners createPowerPellets places the power pellets at
corners(bounds) ==
    << v3(-bounds.x + 2000, -bounds.z + 2000),
       v3(bounds.x - 2000, -bounds.z + 2000),
       v3(-bounds.x + 2000, bounds.z - 2000),
       v3(bounds.x - 2000, bounds.z - 2000) >>

createPowerPellets(count, bounds) ==
    [index \in 1..Min(count, 4) |->
        [id |-> << "power", index - 1 >>, position |-> corners(bounds)[index],
         isEaten |-> FALSE]]

\* the grid positions createPellets keeps, in the order of its loops
gridPositions(bounds, powerPelletPositions) ==
    LET gridX == (bounds.x * 2) \div spacing
        gridZ == (bounds.z * 2) \div spacing
        at(n) == v3(-bounds.x + spacing \div 2 + ((n - 1) \div gridZ) * spacing,
                    -bounds.z + spacing \div 2 + ((n - 1) % gridZ) * spacing)
        all == [n \in 1..(gridX * gridZ) |-> at(n)]
        keep(pos) ==
            /\ pos.x * pos.x + pos.z * pos.z > 3000 * 3000
            /\ \A k \in DOMAIN powerPelletPositions :
                 ~closerThan(pos, powerPelletPositions[k], 2000)
    IN  SelectSeq(all, keep)

\* positions.sort(() => Math.random() - 0.5): the order it leaves is not
\* determined; shuffle is the outcome, one of the orders of Shuffles
Shuffles == { "kept", "reversed" }

shuffled(positions, shuffle) ==
    IF shuffle = "kept" THEN positions
    ELSE [n \in 1..Len(positions) |-> positions[Len(positions) + 1 - n]]

createPellets(count, bounds, powerPelletPositions, shuffle) ==
    LET positions == shuffled(gridPositions(bounds, powerPelletPositions),
                              shuffle)
        selectedPositions == SubSeq(positions, 1, Min(count, Len(positions)))
    IN  [index \in 1..Len(selectedPositions) |->
            [id |-> << "pellet", index - 1 >>,
             position |-> selectedPositions[index], isEaten |-> FALSE]]

\* ghosts are numbered from 1; ghost index of the source is the number - 1
createGhosts(count, bounds, cfg, draw) ==
    [n \in 1..count |->
        [id |-> n - 1,
         position |-> RingPoint(RingDirection(n - 1, count)),
         velocity |-> v3(Div(draw.velocity.x * cfg.ghostSpeed, 1000),
                         Div(draw.velocity.z * cfg.ghostSpeed, 1000)),
         speed |-> cfg.ghostSpeed,
         baseSpeed |-> cfg.ghostSpeed,
         radius |-> 600,
         mode |-> "scatter",
         directionTimer |-> draw.directionTimer,
         spawnDelay |-> (n - 1) * cfg.ghostSpawnDelay,
         isActive |-> (n - 1 = 0)]]

\* the pacman ref at mount
createPacman ==
    [position |-> v3(0, 0), velocity |-> v3(0, 0),
     speed |-> config.playerSpeed, radius |-> 600,
     isPoweredUp |-> FALSE, powerUpEndTime |-> 0]

\* Date.now() when Game3D mounts
MountTime == 1000

\* The state of usePacmanGame and Game3D after the first render.  timers is
\* the set of pending respawn timeouts: each remembers the ghost object it
\* closed over (its number and the generation of the ghost array it belongs
\* to) and the time it is due.
createGame(draw) ==
    LET newPowerPellets == createPowerPellets(config.powerPelletCount,
                                              worldBounds)
        powerPelletPositions == [k \in DOMAIN newPowerPellets |->
                                    newPowerPellets[k].position]
    IN  [pacman |-> createPacman,
         pellets |-> createPellets(config.pelletCount, worldBounds,
                                   powerPelletPositions, draw.shuffle),
         powerPellets |-> newPowerPellets,
         ghosts |-> createGhosts(config.ghostCount, worldBounds, config, draw),
         ghostGen |-> 0,
         score |-> 0,
         lives |-> config.lives,
         level |-> 1,
         gameStatus |-> "ready",
         pelletsEaten |-> 0,
         ghostsEatenCombo |-> 0,
         gameStartTime |-> MountTime,
         now |-> MountTime,
         timers |-> {}]


(***************************************************************************)
(* Pac-Man 3D: handlers of usePacmanGame.                                  *)
(*                                                                         *)
(* A handler works on a record w: w.s is the state of the game, w.h the    *)
(* record of what the callback under way has done (it takes no part in the *)
(* behaviour), w.dirty tells whether a setState has been called since the  *)
(* last render, and w.pending counts the setLives updaters React has       *)
(* queued for the next render.  The other setState calls of the handlers   *)
(* commute with everything that reads their state, so their effect is      *)
(* applied to w.s at the call.                                             *)
(***************************************************************************)
\* the delay of the respawn setTimeout of handleGhostEaten, in ms
RespawnDelay == 2000

\* the numbers of the entries of seq whose id is id
Find(seq, id) == { k \in DOMAIN seq : seq[k].id = id }

\* array.filter((p) => p.id !== id)
Without(seq, id) == LET keep(p) == p.id # id IN SelectSeq(seq, keep)

\* the record of a capture of pellet or power pellet id
Scored(h, id) ==
    [h EXCEPT !.scoredLevel = @ \cup {id},
              !.scoredGame = @ \cup {id},
              !.twiceLevel = @ \cup (IF id \in h.scoredLevel THEN {id} ELSE {}),
              !.twiceGame = @ \cup (IF id \in h.scoredGame THEN {id} ELSE {})]

\* handlePelletEaten without the check of line 236
handlePelletEatenUnchecked(w, pelletId) ==
    [w EXCEPT
       !.s.pellets = Without(@, pelletId),
       !.s.score = @ + SCORES.pellet,
       !.s.pelletsEaten = @ + 1,
       !.dirty = TRUE,
       !.h = [Scored(@, pelletId) EXCEPT
                !.pelletCalls = Append(@, pelletId)]]

handlePelletEaten(w, pelletId) ==
    LET found == Find(w.s.pellets, pelletId)
        called == [w EXCEPT !.h.pelletCalls = Append(@, pelletId)]
    IN  IF found = {} \/ (\A k \in found : w.s.pellets[k].isEaten)
        THEN called
        ELSE [called EXCEPT
                !.s.pellets = Without(@, pelletId),
                !.s.score = @ + SCORES.pellet,
                !.s.pelletsEaten = @ + 1,
                !.dirty = TRUE,
                !.h = Scored(@, pelletId)]

\* the record of a pick-up of a power pellet: the time, the ghosts before
\* it, and pacman and the ghosts as the handler w left them
tookPowerPellet(before, w) ==
    [w EXCEPT !.h.powerUps =
        Append(@, [now |-> before.s.now, before |-> before.s.ghosts,
                   pacman |-> w.s.pacman, ghosts |-> w.s.ghosts])]

\* handlePowerPelletEaten leaving the ghosts as they are
handlePowerPelletEatenCalmly(w, powerPelletId) ==
    LET found == Find(w.s.powerPellets, powerPelletId)
        called == [w EXCEPT !.h.pelletCalls = Append(@, powerPelletId)]
    IN  IF found = {} \/ (\A k \in found : w.s.powerPellets[k].isEaten)
        THEN called
        ELSE tookPowerPellet(w,
               [called EXCEPT
                  !.s.powerPellets = Without(@, powerPelletId),
                  !.s.score = @ + SCORES.powerPellet,
                  !.s.ghostsEatenCombo = 0,
                  !.s.pacman.isPoweredUp = TRUE,
                  !.s.pacman.powerUpEndTime =
                      w.s.now + config.frightenedDuration,
                  !.dirty = TRUE,
                  !.h = [Scored(@, powerPelletId) EXCEPT
                           !.eatenSincePickup = 0,
                           !.pickups = @ + 1]])

handlePowerPelletEaten(w, powerPelletId) ==
    LET found == Find(w.s.powerPellets, powerPelletId)
        called == [w EXCEPT !.h.pelletCalls = Append(@, powerPelletId)]
        frighten(ghost) ==
            IF ghost.isActive /\ ghost.mode # "eaten"
            THEN [ghost EXCEPT !.mode = "frightened",
                               !.speed = Div(ghost.baseSpeed, 2)]
            ELSE ghost
    IN  IF found = {} \/ (\A k \in found : w.s.powerPellets[k].isEaten)
        THEN called
        ELSE tookPowerPellet(w,
               [called EXCEPT
                  !.s.powerPellets = Without(@, powerPelletId),
                  !.s.score = @ + SCORES.powerPellet,
                  !.s.ghostsEatenCombo = 0,
                  !.s.pacman.isPoweredUp = TRUE,
                  !.s.pacman.powerUpEndTime =
                      w.s.now + config.frightenedDuration,
                  !.s.ghosts = [n \in DOMAIN @ |-> frighten(@[n])],
                  !.dirty = TRUE,
                  !.h = [Scored(@, powerPelletId) EXCEPT
                           !.eatenSincePickup = 0,
                           !.pickups = @ + 1]])

\* ghostsEatenCombo is the value the callback closed over at the last render
handleGhostEaten(w, n, ghostsEatenCombo) ==
    LET ghost == w.s.ghosts[n]
        comboMultiplier == Pow2(ghostsEatenCombo)
        points == SCORES.ghost * comboMultiplier
        called == [w EXCEPT !.h.eatenCalls = Append(@, n)]
    IN  IF ghost.mode # "frightened"
        THEN called
        ELSE [called EXCEPT
                !.s.ghosts[n].mode = "eaten",
                !.s.score = @ + points,
                !.s.ghostsEatenCombo = @ + 1,
                !.s.timers = @ \cup {[ghost |-> n, gen |-> w.s.ghostGen,
                                      due |-> w.s.now + RespawnDelay]},
                !.dirty = TRUE,
                !.h.eatenSincePickup = @ + 1,
                !.h.awards = Append(@, [ghost |-> n,
                                        k |-> w.h.eatenSincePickup + 1,
                                        points |-> points])]

\* the updater handlePlayerHit passes to setLives, run with prev = w.s.lives
applyUpdater(w) ==
    IF w.s.lives - 1 <= 0
    THEN [w EXCEPT !.s.gameStatus = "lost", !.s.lives = @ - 1]
    ELSE [w EXCEPT
            !.s.pacman.position = v3(0, 0),
            !.s.pacman.velocity = v3(0, 0),
            !.s.ghosts = [n \in DOMAIN @ |->
                [@[n] EXCEPT
                   !.position = RingPoint(RingDirection(n - 1,
                                                        Len(w.s.ghosts))),
                   !.mode = "scatter"]],
            !.s.lives = @ - 1]

\* the record of a run of the updater: the state it found and left
updaterRan(w, after) ==
    [after EXCEPT
       !.dirty = TRUE,
       !.h.updates = Append(@, [prev |-> w.s.lives,
                                newLives |-> after.s.lives,
                                gameStatus |-> after.s.gameStatus,
                                pacman |-> after.s.pacman,
                                ghosts |-> after.s.ghosts])]

livesUpdater(w) == updaterRan(w, applyUpdater(w))

\* handlePlayerHit without the check of line 301
handlePlayerHitWhilePowered(w, n, eager) ==
    LET called == [w EXCEPT !.h.hits =
                      Append(@, [ghost |-> n, mode |-> w.s.ghosts[n].mode,
                                 isPoweredUp |-> w.s.pacman.isPoweredUp,
                                 lives |-> w.s.lives,
                                 gameStatus |-> w.s.gameStatus])]
    IN  IF eager /\ ~w.dirty THEN livesUpdater(called)
        ELSE [called EXCEPT !.pending = @ + 1, !.dirty = TRUE]

\* eager: React runs the updater inside setLives when the component has no
\* update queued, and that is possible only before the first setState since
\* the last render; otherwise the updater runs at the next render
handlePlayerHit(w, n, eager) ==
    LET called == [w EXCEPT !.h.hits =
                      Append(@, [ghost |-> n, mode |-> w.s.ghosts[n].mode,
                                 isPoweredUp |-> w.s.pacman.isPoweredUp,
                                 lives |-> w.s.lives,
                                 gameStatus |-> w.s.gameStatus])]
    IN  IF w.s.pacman.isPoweredUp THEN called
        ELSE IF eager /\ ~w.dirty THEN livesUpdater(called)
        ELSE [called EXCEPT !.pending = @ + 1, !.dirty = TRUE]

\* g.speed = g.baseSpeed + level * 0.3; g.baseSpeed = g.speed
nextLevel(w, draw) ==
    LET newPowerPellets == createPowerPellets(config.powerPelletCount,
                                              worldBounds)
        newPellets == createPellets(config.pelletCount, worldBounds,
                         [k \in DOMAIN newPowerPellets |->
                             newPowerPellets[k].position], draw.shuffle)
        newGhosts == createGhosts(config.ghostCount, worldBounds, config, draw)
    IN  [w EXCEPT
           !.s.pellets = newPellets,
           !.s.powerPellets = newPowerPellets,
           !.s.ghosts = [n \in DOMAIN newGhosts |->
               [newGhosts[n] EXCEPT
                  !.speed = newGhosts[n].baseSpeed + w.s.level * 300,
                  !.baseSpeed = newGhosts[n].baseSpeed + w.s.level * 300]],
           !.s.ghostGen = @ + 1,
           !.s.level = @ + 1,
           !.s.pelletsEaten = 0,
           !.s.ghostsEatenCombo = 0,
           !.s.score = @ + SCORES.levelComplete,
           !.s.pacman.position = v3(0, 0),
           !.s.pacman.velocity = v3(0, 0),
           !.s.pacman.isPoweredUp = FALSE,
           !.s.pacman.powerUpEndTime = 0,
           !.h.scoredLevel = {},
           !.h.twiceLevel = {},
           !.h.levelUps = @ + 1,
           !.h.levelStart = w.s.now]

\* resetGame, with the setGameStartTime(Date.now()) of handleReset
resetGame(w, draw) ==
    LET fresh == createGame(draw)
    IN  [w EXCEPT
           !.s = [fresh EXCEPT !.ghostGen = w.s.ghostGen + 1,
                               !.gameStartTime = w.s.now,
                               !.now = w.s.now,
                               !.timers = w.s.timers],
           !.h.scoredLevel = {},
           !.h.twiceLevel = {},
           !.h.scoredGame = {},
           !.h.twiceGame = {}]

\* the render that follows a callback: the queued setLives updaters run in
\* the order of their calls, then the level-complete effect
RECURSIVE runPending(_)
runPending(w) ==
    IF w.pending = 0 THEN w
    ELSE runPending(livesUpdater([w EXCEPT !.pending = @ - 1]))

\* render with a level-complete effect that does not look at gameStatus
renderWhateverStatus(w, draw) ==
    LET r == runPending(w)
    IN  IF Len(r.s.pellets) = 0 /\ Len(r.s.powerPellets) = 0
        THEN nextLevel(r, draw)
        ELSE r

render(w, draw) ==
    LET r == runPending(w)
    IN  IF /\ r.s.gameStatus = "playing"
           /\ Len(r.s.pellets) = 0
           /\ Len(r.s.powerPellets) = 0
        THEN nextLevel(r, draw)
        ELSE r


(***************************************************************************)
(* Pac-Man 3D: the frame callback of GameLogic                             *)
(***************************************************************************)
getGhostTargetPosition(ghost, ghostIndex, pacmanPos, pacmanVel, bounds) ==
    LET personality == ghostIndex % 4
    IN  CASE personality = 0 -> pacmanPos
          [] personality = 1 ->
               IF pacmanVel.x * pacmanVel.x + pacmanVel.z * pacmanVel.z > 10000
               THEN vecAdd3(pacmanPos, setLength3(pacmanVel, 4000))
               ELSE pacmanPos
          [] personality = 2 ->
               vecAdd3(pacmanPos,
                       setLength3(v3(-pacmanVel.z, pacmanVel.x), 3000))
          [] OTHER ->
               IF ~closerThan(ghost.position, pacmanPos, 8001)
               THEN pacmanPos
               ELSE v3(IF ghost.position.x > 0 THEN bounds.x - 2000
                       ELSE -bounds.x + 2000,
                       IF ghost.position.z > 0 THEN bounds.z - 2000
                       ELSE -bounds.z + 2000)

\* the scatter / chase schedule, elapsed in ms
cycleMode(elapsed) ==
    IF elapsed < 7000 THEN "scatter"
    ELSE IF elapsed < 27000 THEN "chase"
    ELSE IF elapsed < 34000 THEN "scatter"
    ELSE IF elapsed < 54000 THEN "chase"
    ELSE IF elapsed < 59000 THEN "scatter"
    ELSE IF (elapsed - 59000) % 25000 < 5000 THEN "scatter"
    ELSE "chase"

\* the velocity a ghost takes when its direction timer runs out
steer(ghost, index, pacman, bounds, draw) ==
    LET scatterCorners == << v3(bounds.x - 2000, -bounds.z + 2000),
                             v3(-bounds.x + 2000, -bounds.z + 2000),
                             v3(bounds.x - 2000, bounds.z - 2000),
                             v3(-bounds.x + 2000, bounds.z - 2000) >>
    IN  CASE ghost.mode = "chase" ->
               LET targetPos == getGhostTargetPosition(ghost, index,
                                    pacman.position, pacman.velocity, bounds)
                   toPlayer == setLength3(vecSub3(targetPos, ghost.position),
                                          ghost.speed)
               IN  v3(toPlayer.x + Div(draw.jitter.x * 300, 1000),
                      toPlayer.z + Div(draw.jitter.z * 300, 1000))
          [] ghost.mode = "scatter" ->
               setLength3(vecSub3(scatterCorners[(index % 4) + 1],
                                  ghost.position), ghost.speed)
          [] ghost.mode = "frightened" ->
               LET toPlayer == setLength3(vecSub3(ghost.position,
                                                  pacman.position),
                                          Div(ghost.speed * 6, 10))
               IN  v3(toPlayer.x + Div(draw.jitter.x * 1500, 1000),
                      toPlayer.z + Div(draw.jitter.z * 1500, 1000))
          [] OTHER -> ghost.velocity

\* ghost loop, lines 197-256: the direction timer runs and, when it has run
\* out, the ghost turns
turnGhost(ghost, index, pacman, bounds, dt, draw) ==
    IF ghost.directionTimer - dt <= 0
    THEN [ghost EXCEPT !.directionTimer = draw.timer,
                       !.velocity = steer(ghost, index, pacman, bounds, draw)]
    ELSE [ghost EXCEPT !.directionTimer = @ - dt]

\* ghost loop, lines 259-279: the velocity with the wander and the
\* boundary avoidance added
wanderOf(ghost, bounds, draw) ==
    LET wanderStrength == IF ghost.mode = "frightened" THEN 500 ELSE 200
        boundaryBuffer == 2000
        avoid(p, bound) ==
            (IF p > bound - boundaryBuffer
             THEN Div(p - (bound - boundaryBuffer), 2) ELSE 0)
            + (IF p < -bound + boundaryBuffer
               THEN Div(p - (-bound + boundaryBuffer), 2) ELSE 0)
    IN  v3(ghost.velocity.x + Div(draw.wander.x * wanderStrength, 1000)
              - avoid(ghost.position.x, bounds.x),
           ghost.velocity.z + Div(draw.wander.z * wanderStrength, 1000)
              - avoid(ghost.position.z, bounds.z))

\* ghost loop, lines 285-289: the ghost moves with velocity and stays inside
placeGhost(ghost, velocity, bounds, dt) ==
    [ghost EXCEPT
       !.velocity = velocity,
       !.position =
           v3(clamp(ghost.position.x + Div(velocity.x * dt, 1000),
                    -bounds.x + ghost.radius, bounds.x - ghost.radius),
              clamp(ghost.position.z + Div(velocity.z * dt, 1000),
                    -bounds.z + ghost.radius, bounds.z - ghost.radius))]

\* ghost loop, lines 259-289
driftGhost(ghost, bounds, dt, draw) ==
    placeGhost(ghost,
               lerp3(ghost.velocity,
                     clampLength3(wanderOf(ghost, bounds, draw),
                                  Div(ghost.speed, 2), ghost.speed),
                     IF ghost.mode = "frightened" THEN 15 ELSE 12),
               bounds, dt)

\* the movement of one ghost in a frame: lines 196-289 of the ghost loop
moveGhost(ghost, index, pacman, bounds, dt, draw) ==
    driftGhost(turnGhost(ghost, index, pacman, bounds, dt, draw),
               bounds, dt, draw)

\* ghost loop, lines 191-193
activateGhost(w, n, elapsed) ==
    [w EXCEPT !.s.ghosts[n].isActive =
        @ \/ elapsed > w.s.ghosts[n].spawnDelay]

\* ghost loop, lines 196-295
moveStage(w, n, dt, draw) ==
    [w EXCEPT !.s.ghosts[n] =
        moveGhost(@, n - 1, w.s.pacman, worldBounds, dt, draw)]

\* the record of a collision of ghost n
sawCollision(w, n) ==
    [w EXCEPT !.h.collisions =
        Append(@, [ghost |-> n, mode |-> w.s.ghosts[n].mode])]

\* ghost loop, lines 298-310
collideStage(w, n, ghostsEatenCombo, eager) ==
    IF ~closerThan(w.s.ghosts[n].position, w.s.pacman.position,
                   w.s.pacman.radius + w.s.ghosts[n].radius - 100)
    THEN w
    ELSE IF w.s.ghosts[n].mode = "frightened"
    THEN handleGhostEaten(sawCollision(w, n), n, ghostsEatenCombo)
    ELSE handlePlayerHit(sawCollision(w, n), n, eager)

\* ghost loop, lines 314-331
cycleStage(w, n, elapsed) ==
    IF w.s.ghosts[n].mode # "frightened"
    THEN [w EXCEPT !.s.ghosts[n].mode = cycleMode(elapsed)]
    ELSE w

\* ghost loop, lines 194-331, for a ghost after activateGhost
trackGhost(w, n, dt, elapsed, draw, ghostsEatenCombo, eager) ==
    IF ~w.s.ghosts[n].isActive \/ w.s.ghosts[n].mode = "eaten" THEN w
    ELSE cycleStage(collideStage(moveStage(w, n, dt, draw), n,
                                 ghostsEatenCombo, eager),
                    n, elapsed)

\* one pass of the ghost loop, for ghost number n
ghostStep(w, n, dt, elapsed, draw, ghostsEatenCombo, eager) ==
    trackGhost(activateGhost(w, n, elapsed), n, dt, elapsed, draw,
               ghostsEatenCombo, eager)

RECURSIVE ghostLoop(_, _, _, _, _, _, _)
ghostLoop(w, n, dt, elapsed, draw, ghostsEatenCombo, eager) ==
    IF n > Len(w.s.ghosts) THEN w
    ELSE ghostLoop(ghostStep(w, n, dt, elapsed, draw, ghostsEatenCombo, eager),
                   n + 1, dt, elapsed, draw, ghostsEatenCombo, eager)

\* the forEach over the pellets (power = FALSE) or the power pellets of the
\* array the loop started with: the handler is called, in the order of the
\* array, for the entries within reach of pacman, whom no handler moves
RECURSIVE eatEach(_, _, _, _)
eatEach(w, array, within, power) ==
    IF within = {} THEN w
    ELSE LET k == CHOOSE j \in within : \A i \in within : j <= i
         IN  eatEach(IF power THEN handlePowerPelletEaten(w, array[k].id)
                     ELSE handlePelletEaten(w, array[k].id),
                     array, within \ {k}, power)

pelletLoop(w, array, power) ==
    LET reach == w.s.pacman.radius + (IF power THEN 400 ELSE 200)
        within == { k \in DOMAIN array :
                      /\ ~array[k].isEaten
                      /\ closerThan(array[k].position, w.s.pacman.position,
                                    reach) }
    IN  eatEach(w, array, within, power)

\* the record of the end of a power-up: the ghosts before it, and pacman
\* and the ghosts as the frame w has them after it
powerRanOut(before, w) ==
    [w EXCEPT !.h.expiries =
        Append(@, [before |-> before.s.ghosts,
                   pacman |-> w.s.pacman, ghosts |-> w.s.ghosts])]

\* expirePower leaving the ghosts as they are
expirePowerOfPacman(w) ==
    IF w.s.pacman.isPoweredUp /\ w.s.now > w.s.pacman.powerUpEndTime
    THEN powerRanOut(w, [w EXCEPT !.s.pacman.isPoweredUp = FALSE])
    ELSE w

\* useFrame, lines 115-125: the power-up runs out
expirePower(w) ==
    LET calm(ghost) ==
            IF ghost.mode = "frightened"
            THEN [ghost EXCEPT !.mode = "chase", !.speed = ghost.baseSpeed]
            ELSE ghost
    IN  IF w.s.pacman.isPoweredUp /\ w.s.now > w.s.pacman.powerUpEndTime
        THEN powerRanOut(w,
                 [w EXCEPT !.s.pacman.isPoweredUp = FALSE,
                           !.s.ghosts = [n \in DOMAIN @ |-> calm(@[n])]])
        ELSE w

\* movePacman without the clamp of lines 142-151
movePacmanUnclamped(pacman, keys, bounds, dt) ==
    LET dx == (IF keys.right THEN 1 ELSE 0) - (IF keys.left THEN 1 ELSE 0)
        dz == (IF keys.down THEN 1 ELSE 0) - (IF keys.up THEN 1 ELSE 0)
        move == IF dx # 0 \/ dz # 0
                THEN setLength3(v3(dx * 1000, dz * 1000), pacman.speed)
                ELSE v3(0, 0)
        velocity == lerp3(pacman.velocity, move, 20)
    IN  [pacman EXCEPT
           !.velocity = velocity,
           !.position = v3(pacman.position.x + Div(velocity.x * dt, 1000),
                           pacman.position.z + Div(velocity.z * dt, 1000))]

\* useFrame, lines 128-151
movePacman(pacman, keys, bounds, dt) ==
    LET dx == (IF keys.right THEN 1 ELSE 0) - (IF keys.left THEN 1 ELSE 0)
        dz == (IF keys.down THEN 1 ELSE 0) - (IF keys.up THEN 1 ELSE 0)
        move == IF dx # 0 \/ dz # 0
                THEN setLength3(v3(dx * 1000, dz * 1000), pacman.speed)
                ELSE v3(0, 0)
        velocity == lerp3(pacman.velocity, move, 20)
    IN  [pacman EXCEPT
           !.velocity = velocity,
           !.position =
               v3(clamp(pacman.position.x + Div(velocity.x * dt, 1000),
                        -bounds.x + pacman.radius, bounds.x - pacman.radius),
                  clamp(pacman.position.z + Div(velocity.z * dt, 1000),
                        -bounds.z + pacman.radius, bounds.z - pacman.radius))]

pacmanStage(w, keys, dt) ==
    [w EXCEPT !.s.pacman = movePacman(@, keys, worldBounds, dt)]

\* useFrame, lines 165-174
pelletStage(w) == pelletLoop(w, w.s.pellets, FALSE)

\* useFrame, lines 177-186
powerPelletStage(w) == pelletLoop(w, w.s.powerPellets, TRUE)

\* The frame callback with Date.now() = w.s.now and the frame time delta
\* (ms), followed by the render its setState calls bring about.  gameStatus
\* and ghostsEatenCombo are read as the last render left them.
useFrame(w, delta, keys, draw, eager) ==
    IF w.s.gameStatus # "playing" THEN w
    ELSE render(
             ghostLoop(
                 powerPelletStage(
                     pelletStage(pacmanStage(expirePower(w), keys,
                                             Min(delta, 50)))),
                 1, Min(delta, 50), w.s.now - w.s.gameStartTime, draw,
                 w.s.ghostsEatenCombo, eager),
             draw)

(***************************************************************************)
(* Marco Polo: state                                                       *)
(***************************************************************************)
VARIABLES
    engine,        \* the EngineState the driver holds (engineStateRef)
    events,        \* the events the last updateEngine call handed to onEvent
    prevEngine,    \* history: engine before the last call
    lastCall,      \* history: the last call and its arguments
    caughtEvents,  \* history: FISH_CAUGHT events emitted so far, per fish id
    steps          \* number of calls made

\* Pac-Man 3D and the application
VARIABLES
    game,      \* the application that is mounted: "marco" or "pacman"
    pm,        \* the state of usePacmanGame, Game3D and the clock
    pmHist,    \* what the last callback did (history, read by no action)
    pmPrev,    \* pm before the last callback
    frames     \* the number of frames taken

\* a SpatialGrid and the player and fish it is used with
VARIABLES
    cells,       \* SpatialGrid.cells: the fish numbers pushed, per cell key
    gridPlayer,  \* the player passed to checkPlayerCollision
    gridFish,    \* the fish array passed to addFishArray
    collided,    \* the array the last checkPlayerCollision returned
    gridOp       \* the last method called, and the number of calls

pmVars == << pm, pmHist, pmPrev, frames >>

sgVars == << cells, gridPlayer, gridFish, collided, gridOp >>

vars == << game, engine, events, prevEngine, lastCall, caughtEvents, steps,
           pm, pmHist, pmPrev, frames, cells, gridPlayer, gridFish, collided,
           gridOp >>

mpVars == << engine, events, prevEngine, lastCall, caughtEvents, steps >>

\* a caught fish, as catchFish leaves it
CaughtFish(id, size, position) ==
    [createFish(id, size, position, 100, 1200) EXCEPT
        !.isCaught = TRUE, !.isActive = FALSE]

\* the school of a new medium game: createFish puts every fish at least
\* 150 px from the player's start position
NewSchool ==
    << createFish(1, "medium", vec(600, 300), 100, 1500),
       createFish(2, "small",  vec(200, 300), 80,  1000),
       createFish(3, "large",  vec(400, 100), 119, 2900),
       createFish(4, "medium", vec(400, 500), 100, 2000),
       createFish(5, "small",  vec(650, 450), 90,  1200),
       createFish(6, "large",  vec(150, 150), 110, 2500),
       createFish(7, "medium", vec(700, 100), 100, 1800) >>

\* a game in progress: the player swims right at full speed toward two
\* idle fish just out of reach, a third fish swims far away, four fish
\* have been caught
ChaseSchool ==
    << createFish(1, "medium", vec(440, 300), 100, 1500),
       createFish(2, "small",  vec(443, 310), 80,  1000),
       [createFish(3, "large", vec(200, 300), 100, 2000) EXCEPT
           !.currentBehavior = "swimming",
           !.targetPosition = vec(100, 300),
           !.velocity = vec(-60, 0)],
       CaughtFish(4, "medium", vec(400, 500)),
       CaughtFish(5, "small",  vec(650, 450)),
       CaughtFish(6, "large",  vec(150, 150)),
       CaughtFish(7, "medium", vec(700, 100)) >>

MidGame(timeRemaining, lastTimestamp) ==
    LET fresh == createEngineState("medium", ChaseSchool)
    IN  [fresh EXCEPT
           !.gameState.timeRemaining = timeRemaining,
           !.gameState.score = 600,
           !.gameState.fishCaught = 4,
           !.gameState.marcoCallsRemaining = 10,
           !.player.velocity = vec(160, 0),
           !.player.lastCallTime = lastTimestamp - 20000,
           !.previousPlayerPosition = vec(384, 300),
           !.lastTimestamp = lastTimestamp,
           !.lastCatchTime = lastTimestamp - 10000]

\* the end of a game: the two fish ahead of the player are the last ones and
\* the Marco calls are used up
EndGame ==
    [MidGame(30000, 46000) EXCEPT
        !.fish[3] = CaughtFish(3, "large", vec(200, 300)),
        !.gameState.score = 700,
        !.gameState.fishCaught = 5,
        !.gameState.marcoCallsRemaining = 0,
        !.comboCount = 4,
        !.lastCatchTime = 46000 - 100]

\* the player swims right at full speed, 5 px from the right wall, with 5
\* points and one Marco call left
AtWall ==
    [MidGame(50000, 25000) EXCEPT
        !.player.position = vec(765, 300),
        !.previousPlayerPosition = vec(749, 300),
        !.gameState.score = 5,
        !.gameState.fishCaught = 4,
        !.gameState.marcoCallsRemaining = 1]

\* the player called Marco 410 ms ago and the three fish in range, two of
\* them near the player and one far from it, answer
Answering ==
    LET g == MidGame(60000, 12000)
        answers(fish) ==
            [triggerPoloResponse(fish, g.config, g.lastTimestamp - 410)
                EXCEPT !.behaviorTimer = 90]
    IN  [g EXCEPT
           !.player.isCalling = TRUE,
           !.player.lastCallTime = g.lastTimestamp - 410,
           !.player.callCooldownRemaining = g.config.marcoCooldown - 410,
           !.gameState.marcoCallsRemaining = 9,
           !.fish[1] = answers(@),
           !.fish[2] = answers(@),
           !.fish[3] = answers(@)]

\* the states a run starts from: a new game, and games in progress, one of
\* them 90 ms before the time runs out, one with two fish left, one with
\* the player at a wall, one with fish answering a Marco call
StartStates ==
    { createEngineState("medium", NewSchool),
      MidGame(36000, 40000),
      MidGame(90, 80000),
      EndGame,
      AtWall,
      Answering }

MpInit ==
    /\ engine \in StartStates
    /\ events = <<>>
    /\ prevEngine = engine
    /\ lastCall = [op |-> "create", keys |-> NoKeys, timestamp |-> 0,
                   paused |-> FALSE, resumed |-> FALSE]
    /\ caughtEvents = [i \in 1..Len(engine.fish) |->
                          IF engine.fish[i].isCaught THEN 1 ELSE 0]
    /\ steps = 0

\* the number of FISH_CAUGHT events for fish id among evs
RECURSIVE CountCaught(_, _)
CountCaught(evs, id) ==
    IF evs = <<>> THEN 0
    ELSE (IF Head(evs).type = "FISH_CAUGHT" /\ Head(evs).fishId = id
          THEN 1 ELSE 0) + CountCaught(Tail(evs), id)

(***************************************************************************)
(* Marco Polo: operations                                                  *)
(***************************************************************************)
\* updateEngine(engine, keys, timestamp, onEvent)
UpdateEngine ==
    /\ game = "marco"
    /\ UNCHANGED << game, pmVars, sgVars >>
    /\ steps < MaxSteps
    /\ \E keys \in KeyInputs, d \in TimeSteps, rnd \in RandomDraws :
         LET timestamp == engine.lastTimestamp + d
             r == updateEngine(engine, keys, timestamp, rnd)
         IN  /\ timestamp > 0
             /\ engine' = r.state
             /\ events' = r.events
             /\ prevEngine' = engine
             /\ lastCall' = [op |-> "updateEngine", keys |-> keys,
                             timestamp |-> timestamp, paused |-> FALSE,
                             resumed |-> /\ lastCall.op = "setPaused"
                                         /\ prevEngine.gameState.isPaused
                                         /\ ~engine.gameState.isPaused]
             /\ caughtEvents' = [i \in DOMAIN caughtEvents |->
                                   caughtEvents[i] + CountCaught(r.events, i)]
    /\ steps' = steps + 1

\* setPaused(engine, paused)
SetPaused ==
    /\ game = "marco"
    /\ UNCHANGED << game, pmVars, sgVars >>
    /\ steps < MaxSteps
    /\ \E paused \in BOOLEAN :
         /\ engine' = setPaused(engine, paused)
         /\ lastCall' = [op |-> "setPaused", keys |-> NoKeys,
                         timestamp |-> 0, paused |-> paused,
                         resumed |-> FALSE]
    /\ events' = <<>>
    /\ prevEngine' = engine
    /\ steps' = steps + 1
    /\ UNCHANGED caughtEvents

MpNext == UpdateEngine \/ SetPaused


(***************************************************************************)
(* Pac-Man 3D: state                                                       *)
(***************************************************************************)
NoHistory ==
    [op |-> "mount", awards |-> <<>>, hits |-> <<>>, updates |-> <<>>,
     collisions |-> <<>>, eatenCalls |-> <<>>, pelletCalls |-> <<>>,
     eatenSincePickup |-> 0, pickups |-> 0, levelUps |-> 0,
     scoredLevel |-> {}, scoredGame |-> {}, twiceLevel |-> {},
     twiceGame |-> {}, powerUps |-> <<>>, expiries |-> <<>>,
     levelStart |-> 0]

\* the history at the start of callback op
StartOf(h, op) ==
    [h EXCEPT !.op = op, !.awards = <<>>, !.hits = <<>>, !.updates = <<>>,
              !.collisions = <<>>, !.eatenCalls = <<>>, !.pelletCalls = <<>>,
              !.powerUps = <<>>, !.expiries = <<>>]

Ids(seq) == { seq[k].id : k \in DOMAIN seq }

\* Date.now() at the click on Start in the states below
StartTime == 2000

\* a ghost that is active, with the given mode, position and velocity
Placed(ghost, mode, position, velocity, timer) ==
    [ghost EXCEPT !.isActive = TRUE, !.mode = mode,
                  !.speed = IF mode = "frightened" THEN Div(ghost.baseSpeed, 2)
                            ELSE ghost.baseSpeed,
                  !.position = position, !.velocity = velocity,
                  !.directionTimer = timer]

\* a game some time after Start in which the pellets numbered below eaten
\* have been eaten
Played(draw, elapsed, eaten) ==
    LET fresh == createGame(draw)
        keep(p) == p.id[2] >= eaten
    IN  [fresh EXCEPT !.gameStatus = "playing",
                      !.gameStartTime = StartTime,
                      !.now = StartTime + elapsed,
                      !.pellets = SelectSeq(@, keep),
                      !.pelletsEaten = eaten,
                      !.score = eaten * SCORES.pellet]

PelletIds(from, to) == { << "pellet", k >> : k \in from..to }

PowerIds == { << "power", k >> : k \in 0..(config.powerPelletCount - 1) }

DrawA == CHOOSE d \in PacDraws : d.shuffle = "kept"

DrawB == CHOOSE d \in PacDraws : d.shuffle = "reversed"

\* Pac-Man took the power pellet of the corner (18, -18) 6.96 s ago, has one
\* life left and runs into two frightened ghosts
Hunt ==
    LET g == Played(DrawB, 30000, 10)
        keep(p) == p.id # << "power", 1 >>
    IN  [s |-> [g EXCEPT
                  !.powerPellets = SelectSeq(@, keep),
                  !.score = @ + SCORES.powerPellet,
                  !.lives = 1,
                  !.pacman.position = v3(10000, -10000),
                  !.pacman.velocity = v3(4800, 0),
                  !.pacman.isPoweredUp = TRUE,
                  !.pacman.powerUpEndTime = g.now + 40,
                  !.ghosts = << Placed(@[1], "frightened", v3(11150, -10000),
                                       v3(-2000, 0), 500),
                                Placed(@[2], "frightened", v3(10150, -8890),
                                       v3(0, -2000), 700),
                                Placed(@[3], "frightened", v3(-5000, 5000),
                                       v3(1000, 1000), 300) >>],
         h |-> [NoHistory EXCEPT
                  !.pickups = 1,
                  !.scoredLevel = PelletIds(0, 9) \cup {<< "power", 1 >>},
                  !.scoredGame = PelletIds(0, 9) \cup {<< "power", 1 >>}]]

\* Pac-Man, who ate a ghost 1 s ago under a power pellet that ran out 0.5 s
\* ago, reaches the power pellet of the corner (18, -18) with a chasing
\* ghost ahead
Pickup ==
    LET g == Played(DrawB, 40000, 20)
        keep(p) == p.id # << "power", 3 >>
    IN  [s |-> [g EXCEPT
                  !.powerPellets = SelectSeq(@, keep),
                  !.score = @ + SCORES.powerPellet + SCORES.ghost,
                  !.ghostsEatenCombo = 1,
                  !.pacman.position = v3(16950, -18000),
                  !.pacman.velocity = v3(4800, 0),
                  !.pacman.powerUpEndTime = g.now - 500,
                  !.ghosts = << Placed(@[1], "chase", v3(18200, -18000),
                                       v3(-4500, 0), 400),
                                Placed(@[2], "chase", v3(0, 9000),
                                       v3(3000, -3000), 600),
                                [Placed(@[3], "eaten", v3(-9000, -2000),
                                        v3(4000, 0), 900)
                                    EXCEPT !.speed = Div(@, 2)] >>,
                  !.timers = {[ghost |-> 3, gen |-> 0,
                               due |-> g.now - 1000 + RespawnDelay]}],
         h |-> [NoHistory EXCEPT
                  !.pickups = 1, !.eatenSincePickup = 1,
                  !.scoredLevel = PelletIds(0, 19) \cup {<< "power", 3 >>},
                  !.scoredGame = PelletIds(0, 19) \cup {<< "power", 3 >>}]]

\* two chasing ghosts close in on Pac-Man, who has lives lives left
Cornered(lives) ==
    LET g == Played(DrawB, 12000, 5)
    IN  [s |-> [g EXCEPT
                  !.lives = lives,
                  !.pacman.position = v3(3000, 2000),
                  !.pacman.velocity = v3(4800, 0),
                  !.ghosts = << Placed(@[1], "chase", v3(4200, 2000),
                                       v3(-4400, 0), 500),
                                Placed(@[2], "chase", v3(3100, 3150),
                                       v3(0, -4400), 700),
                                Placed(@[3], "chase", v3(-9000, -2000),
                                       v3(4000, 0), 900) >>],
         h |-> [NoHistory EXCEPT
                  !.scoredLevel = PelletIds(0, 4),
                  !.scoredGame = PelletIds(0, 4)]]

\* the second ghost, chasing, closes in on Pac-Man, the others far away
Flanked ==
    LET g == Played(DrawA, 15000, 8)
    IN  [s |-> [g EXCEPT
                  !.pacman.position = v3(-4000, 6000),
                  !.pacman.velocity = v3(0, 0),
                  !.ghosts = << Placed(@[1], "chase", v3(9000, 9000),
                                       v3(-3000, -3000), 500),
                                Placed(@[2], "chase", v3(-4000, 7150),
                                       v3(0, -4400), 700),
                                Placed(@[3], "chase", v3(-12000, -8000),
                                       v3(3000, 3000), 900) >>],
         h |-> [NoHistory EXCEPT
                  !.scoredLevel = PelletIds(0, 7),
                  !.scoredGame = PelletIds(0, 7)]]

\* the last pellet of level 1 lies ahead of Pac-Man
LastPellet ==
    LET g == Played(DrawA, 120000, 79)
        last == g.pellets[1].position
    IN  [s |-> [g EXCEPT
                  !.powerPellets = <<>>,
                  !.score = @ + 4 * SCORES.powerPellet,
                  !.pacman.position = v3(last.x + 850, last.z),
                  !.pacman.velocity = v3(-4800, 0),
                  !.pacman.powerUpEndTime = StartTime + 90000,
                  !.ghosts = << Placed(@[1], "chase", v3(15000, 15000),
                                       v3(-3000, -3000), 500),
                                Placed(@[2], "chase", v3(15000, -9000),
                                       v3(-4000, 0), 700),
                                Placed(@[3], "chase", v3(9000, 16000),
                                       v3(0, -4000), 900) >>],
         h |-> [NoHistory EXCEPT
                  !.pickups = 4,
                  !.scoredLevel = PelletIds(0, 78) \cup PowerIds,
                  !.scoredGame = PelletIds(0, 78) \cup PowerIds]]

\* the last pellet of level 1 lies ahead of Pac-Man, who has lives lives
\* left, and a chasing ghost comes at him from the side
LastStand(lives) ==
    LET g == LastPellet.s
    IN  [s |-> [g EXCEPT
                  !.lives = lives,
                  !.ghosts[1] = Placed(@, "chase",
                                       v3(g.pacman.position.x,
                                          g.pacman.position.z + 1100),
                                       v3(0, -4400), 500)],
         h |-> LastPellet.h]

\* level 2 has begun and Pac-Man, moving on toward the wall beside it, is
\* about to reach the first pellet
LevelTwo ==
    LET g == nextLevel([s |-> Played(DrawA, 150000, 80),
                        h |-> NoHistory], DrawA).s
        first == g.pellets[1].position
    IN  [s |-> [g EXCEPT
                  !.score = @ + 4 * SCORES.powerPellet,
                  !.pacman.position = v3(first.x - 640, first.z),
                  !.pacman.velocity = v3(-4800, 0),
                  !.ghosts = << Placed(@[1], "chase", v3(15000, 15000),
                                       v3(-3000, -3000), 500),
                                Placed(@[2], "chase", v3(15000, -9000),
                                       v3(-4000, 0), 700),
                                Placed(@[3], "chase", v3(9000, 16000),
                                       v3(0, -4000), 900) >>],
         h |-> [NoHistory EXCEPT
                  !.pickups = 4, !.levelUps = 1, !.levelStart = g.now,
                  !.scoredGame = PelletIds(0, 79) \cup PowerIds]]

\* the game as mounted
Mounted(draw) == [s |-> createGame(draw), h |-> NoHistory]

PacmanStates ==
    { Mounted(draw) : draw \in PacDraws }
        \cup { Hunt, Pickup, Cornered(1), Cornered(2), Flanked, LastPellet,
               LastStand(1), LastStand(2), LevelTwo }


(***************************************************************************)
(* Pac-Man 3D: operations                                                  *)
(***************************************************************************)
World(op, now) ==
    [s |-> [pm EXCEPT !.now = now], h |-> StartOf(pmHist, op),
     dirty |-> FALSE, pending |-> 0]

PmInit ==
    /\ \E start \in PacmanStates : pm = start.s /\ pmHist = start.h
    /\ pmPrev = pm
    /\ frames = 0

\* a frame of the render loop, delta ms after the last one
Frame ==
    /\ game = "pacman"
    /\ UNCHANGED << game, mpVars, sgVars >>
    /\ frames < MaxFrames
    /\ \E delta \in FrameDeltas, keys \in PacKeys, draw \in PacDraws,
          eager \in BOOLEAN :
         LET w == useFrame(World("useFrame", pm.now + delta), delta, keys,
                           draw, eager)
         IN  /\ pm' = w.s
             /\ pmHist' = w.h
    /\ pmPrev' = pm
    /\ frames' = frames + 1

\* a respawn timeout that brings the ghost back frightened, whether pacman is
\* powered up or not
RespawnTimerFrightened ==
    /\ game = "pacman"
    /\ UNCHANGED << game, mpVars, sgVars >>
    /\ \E timer \in pm.timers, draw \in PacDraws :
         /\ pm.now >= timer.due
         /\ pm' = IF timer.gen # pm.ghostGen
                  THEN [pm EXCEPT !.timers = @ \ {timer}]
                  ELSE [pm EXCEPT
                          !.timers = @ \ {timer},
                          !.ghosts[timer.ghost].position = RingPoint(draw.angle),
                          !.ghosts[timer.ghost].mode = "frightened",
                          !.ghosts[timer.ghost].speed =
                              Div(pm.ghosts[timer.ghost].baseSpeed, 2)]
    /\ pmHist' = StartOf(pmHist, "respawn")
    /\ pmPrev' = pm
    /\ UNCHANGED frames

\* the respawn timeout handleGhostEaten set fires: it writes to the ghost
\* object it closed over, which is in ghostsRef.current if the array has
\* not been replaced since
RespawnTimer ==
    /\ game = "pacman"
    /\ UNCHANGED << game, mpVars, sgVars >>
    /\ \E timer \in pm.timers, draw \in PacDraws :
         /\ pm.now >= timer.due
         /\ pm' = IF timer.gen # pm.ghostGen
                  THEN [pm EXCEPT !.timers = @ \ {timer}]
                  ELSE [pm EXCEPT
                          !.timers = @ \ {timer},
                          !.ghosts[timer.ghost].position = RingPoint(draw.angle),
                          !.ghosts[timer.ghost].mode =
                              IF pm.pacman.isPoweredUp THEN "frightened"
                              ELSE "chase",
                          !.ghosts[timer.ghost].speed =
                              IF pm.pacman.isPoweredUp
                              THEN Div(pm.ghosts[timer.ghost].baseSpeed, 2)
                              ELSE pm.ghosts[timer.ghost].baseSpeed]
    /\ pmHist' = StartOf(pmHist, "respawn")
    /\ pmPrev' = pm
    /\ UNCHANGED frames

\* the Start button of the overlay, shown while gameStatus is 'ready'
HandleStart ==
    /\ game = "pacman"
    /\ UNCHANGED << game, mpVars, sgVars >>
    /\ pm.gameStatus = "ready"
    /\ pm' = [pm EXCEPT !.gameStartTime = pm.now, !.gameStatus = "playing"]
    /\ pmHist' = StartOf(pmHist, "startGame")
    /\ pmPrev' = pm
    /\ UNCHANGED frames

\* togglePause starting the game from any status that is not 'playing'
TogglePauseFromAnyStatus ==
    /\ game = "pacman"
    /\ UNCHANGED << game, mpVars, sgVars >>
    /\ pm' = [pm EXCEPT !.gameStatus =
                 IF @ = "playing" THEN "paused" ELSE "playing"]
    /\ pmHist' = StartOf(pmHist, "togglePause")
    /\ pmPrev' = pm
    /\ UNCHANGED frames

TogglePause ==
    /\ game = "pacman"
    /\ UNCHANGED << game, mpVars, sgVars >>
    /\ pm' = [pm EXCEPT !.gameStatus =
                 IF @ = "playing" THEN "paused"
                 ELSE IF @ = "paused" THEN "playing" ELSE @]
    /\ pmHist' = StartOf(pmHist, "togglePause")
    /\ pmPrev' = pm
    /\ UNCHANGED frames

\* the Play Again button of the overlay, shown while gameStatus is 'lost'
HandleReset ==
    /\ game = "pacman"
    /\ UNCHANGED << game, mpVars, sgVars >>
    /\ pm.gameStatus = "lost"
    /\ \E draw \in PacDraws :
         LET w == resetGame(World("resetGame", pm.now), draw)
         IN  pm' = w.s /\ pmHist' = w.h
    /\ pmPrev' = pm
    /\ UNCHANGED frames

\* onPelletEaten / onPowerPelletEaten is invoked once more, in the game
\* under way, for an id the last callback invoked it for in the same level
RepeatPelletEaten ==
    /\ game = "pacman"
    /\ UNCHANGED << game, mpVars, sgVars >>
    /\ pm.gameStatus = "playing"
    /\ pm.level = pmPrev.level
    /\ \E k \in DOMAIN pmHist.pelletCalls :
         LET id == pmHist.pelletCalls[k]
             w0 == World("repeat", pm.now)
             w == render(IF id[1] = "power" THEN handlePowerPelletEaten(w0, id)
                         ELSE handlePelletEaten(w0, id), DrawA)
         IN  pm' = w.s /\ pmHist' = w.h
    /\ pmPrev' = pm
    /\ UNCHANGED frames

PmNext ==
    \/ Frame
    \/ RespawnTimer
    \/ HandleStart
    \/ TogglePause
    \/ HandleReset
    \/ RepeatPelletEaten

(***************************************************************************)
(* SpatialGrid (engine/systems/collision.ts), used on its own with a       *)
(* player and an array of fish.  A cell key is the pair of cell numbers;   *)
(* cells maps the keys set so far to the arrays of fish pushed, a fish     *)
(* being its number in gridFish.                                           *)
(***************************************************************************)
\* the number of fish in the array
MaxFish == 2

\* the number of method calls made on one grid
MaxCalls == 4

cellSize == 100

\* Math.floor(x / cellSize)
getCellKey(x, y) == << x \div cellSize, y \div cellSize >>

\* addFish(fish), fish being number i of array
addFish(map, array, i) ==
    LET key == getCellKey(array[i].position.x, array[i].position.y)
    IN  IF key \in DOMAIN map
        THEN [map EXCEPT ![key] = Append(@, i)]
        ELSE [k \in DOMAIN map \cup {key} |->
                IF k = key THEN << i >> ELSE map[k]]

\* addFishArray(fishArray), from fish number i on
RECURSIVE addFishArray(_, _, _)
addFishArray(map, array, i) ==
    IF i > Len(array) THEN map
    ELSE addFishArray(IF array[i].isActive /\ ~array[i].isCaught
                      THEN addFish(map, array, i) ELSE map,
                      array, i + 1)

\* the concatenation of the arrays of the cells keys, in the order of keys
RECURSIVE pushCells(_, _)
pushCells(map, keys) ==
    IF keys = << >> THEN << >>
    ELSE (IF Head(keys) \in DOMAIN map THEN map[Head(keys)] ELSE << >>)
           \o pushCells(map, Tail(keys))

\* the cell keys << cx, cy >> of the two nested loops, cx from lowX on
RECURSIVE cellKeys(_, _, _, _, _)
cellKeys(cx, cy, lowY, maxX, maxY) ==
    IF cx > maxX THEN << >>
    ELSE IF cy > maxY THEN cellKeys(cx + 1, lowY, lowY, maxX, maxY)
    ELSE << << cx, cy >> >> \o cellKeys(cx, cy + 1, lowY, maxX, maxY)

getNearbyFish(map, x, y, radius) ==
    pushCells(map, cellKeys((x - radius) \div cellSize,
                            (y - radius) \div cellSize,
                            (y - radius) \div cellSize,
                            (x + radius) \div cellSize,
                            (y + radius) \div cellSize))

\* checkPlayerCollision looking no farther than the player's radius
checkPlayerCollisionNear(map, array, player) ==
    LET hit(i) == checkPlayerFishCollision(player, array[i])
    IN  SelectSeq(getNearbyFish(map, player.position.x, player.position.y,
                                player.radius),
                  hit)

checkPlayerCollision(map, array, player) ==
    LET hit(i) == checkPlayerFishCollision(player, array[i])
    IN  SelectSeq(getNearbyFish(map, player.position.x, player.position.y,
                                player.radius + 30),
                  hit)

\* checkAllPlayerFishCollisions(player, fishArray), as fish numbers
checkAllPlayerFishCollisions(player, fishArray) ==
    LET hit(i) == checkPlayerFishCollision(player, fishArray[i])
    IN  SelectSeq([i \in DOMAIN fishArray |-> i], hit)

\* the players and fish the grid is tried with: positions on both sides of
\* cell borders, one of them left of the origin, and fish radii up to 30
GridPlayers ==
    { [position |-> p, radius |-> PLAYER.radius] :
        p \in { vec(100, 100), vec(20, 100), vec(170, 195) } }

GridFishPositions ==
    { vec(149, 100), vec(50, 100), vec(-10, 100), vec(100, 151),
      vec(200, 230), vec(130, 60) }

GridFishes ==
    { [position |-> p, radius |-> r, isActive |-> f[1], isCaught |-> f[2]] :
        p \in GridFishPositions, r \in {12, 30},
        f \in { << TRUE, FALSE >>, << TRUE, TRUE >>, << FALSE, FALSE >> } }

SgInit ==
    /\ cells = << >>
    /\ gridPlayer \in GridPlayers
    /\ gridFish \in [1..MaxFish -> GridFishes]
    /\ collided = << >>
    /\ gridOp = [name |-> "new", calls |-> 0]

\* grid.clear()
Clear ==
    /\ game = "grid"
    /\ UNCHANGED << game, mpVars, pmVars, gridPlayer, gridFish, collided >>
    /\ gridOp.calls < MaxCalls
    /\ cells' = << >>
    /\ gridOp' = [name |-> "clear", calls |-> gridOp.calls + 1]

\* grid.addFishArray(gridFish) on an empty grid
AddFishArray ==
    /\ game = "grid"
    /\ UNCHANGED << game, mpVars, pmVars, gridPlayer, gridFish, collided >>
    /\ gridOp.calls < MaxCalls
    /\ cells = << >>
    /\ cells' = addFishArray(cells, gridFish, 1)
    /\ gridOp' = [name |-> "addFishArray", calls |-> gridOp.calls + 1]

\* grid.checkPlayerCollision(gridPlayer)
CheckPlayerCollision ==
    /\ game = "grid"
    /\ UNCHANGED << game, mpVars, pmVars, gridPlayer, gridFish, cells >>
    /\ gridOp.calls < MaxCalls
    /\ gridOp.name = "addFishArray"
    /\ collided' = checkPlayerCollision(cells, gridFish, gridPlayer)
    /\ gridOp' = [name |-> "checkPlayerCollision",
                  calls |-> gridOp.calls + 1]

SgNext == Clear \/ AddFishArray \/ CheckPlayerCollision

(***************************************************************************)
(* Specifications.  App mounts one of the two games; the state of the      *)
(* other one stays as constructed.                                         *)
(***************************************************************************)
MarcoIdle ==
    /\ engine = createEngineState("medium", NewSchool)
    /\ events = <<>>
    /\ prevEngine = engine
    /\ lastCall = [op |-> "create", keys |-> NoKeys, timestamp |-> 0,
                   paused |-> FALSE, resumed |-> FALSE]
    /\ caughtEvents = [i \in 1..Len(engine.fish) |-> 0]
    /\ steps = 0

PacmanIdle ==
    /\ pm = createGame(DrawA)
    /\ pmHist = NoHistory
    /\ pmPrev = pm
    /\ frames = 0

GridIdle ==
    /\ cells = << >>
    /\ gridPlayer = [position |-> vec(400, 300), radius |-> PLAYER.radius]
    /\ gridFish = << >>
    /\ collided = << >>
    /\ gridOp = [name |-> "new", calls |-> 0]

InitMarco == game = "marco" /\ MpInit /\ PacmanIdle /\ GridIdle

InitPacman == game = "pacman" /\ PmInit /\ MarcoIdle /\ GridIdle

InitGrid == game = "grid" /\ SgInit /\ MarcoIdle /\ PacmanIdle

SpecGrid == InitGrid /\ [][SgNext]_vars

SpecMarco == InitMarco /\ [][MpNext]_vars

SpecPacman == InitPacman /\ [][PmNext]_vars

Init == InitMarco \/ InitPacman

Next ==
    \/ UpdateEngine
    \/ SetPaused
    \/ Frame
    \/ RespawnTimer
    \/ HandleStart
    \/ TogglePause
    \/ HandleReset
    \/ RepeatPelletEaten

Spec == Init /\ [][Next]_vars

(***************************************************************************)
(* Properties of the Marco Polo engine                                     *)
(***************************************************************************)
\* the last call was updateEngine
Stepped == game = "marco" /\ lastCall.op = "updateEngine"

\* the last call was updateEngine on an engine that was not paused
Ran == Stepped /\ ~prevEngine.gameState.isPaused

\* C1: an updateEngine call on a paused engine returns a state equal to the
\* one it was given in every field except lastTimestamp, and emits no event,
\* at every such call
C1_PausedStepChangesNothing ==
    (Stepped /\ prevEngine.gameState.isPaused)
        => /\ [engine EXCEPT !.lastTimestamp = 0]
                = [prevEngine EXCEPT !.lastTimestamp = 0]
           /\ events = <<>>

\* a paused engine has been stepped, not for the first time, with keys
\* pressed, and its lastTimestamp has moved
C1_Witness ==
    /\ Stepped
    /\ prevEngine.gameState.isPaused
    /\ steps >= 3
    /\ lastCall.keys.space /\ lastCall.keys.right
    /\ engine.lastTimestamp # prevEngine.lastTimestamp

\* C8: a step whose timestamp lies before lastTimestamp (a negative delta)
\* is treated as a step of zero delta: timeRemaining does not increase and
\* the player is not displaced
C8_NegativeDeltaIsZero ==
    (Ran /\ prevEngine.lastTimestamp # 0
         /\ lastCall.timestamp < prevEngine.lastTimestamp)
        => /\ engine.gameState.timeRemaining
                <= prevEngine.gameState.timeRemaining
           /\ engine.player.position = prevEngine.player.position

\* C9: timeRemaining decreases by at most 0.1 s in a step of an engine that
\* is not paused, however long the gap since the last step, also in the
\* first step after a pause, and it is never below 0
C9_TimerStepBounded ==
    /\ game = "marco" => engine.gameState.timeRemaining >= 0
    /\ Ran => prevEngine.gameState.timeRemaining
                - engine.gameState.timeRemaining <= 100

\* the first step after a pause, 5 s after the last one, has taken exactly
\* 0.1 s off the timer
C9_Witness ==
    /\ Ran
    /\ lastCall.resumed
    /\ lastCall.timestamp - prevEngine.lastTimestamp = 5000
    /\ prevEngine.gameState.timeRemaining
         - engine.gameState.timeRemaining = 100

\* the last call was the step that brought timeRemaining to 0
TimedOut ==
    /\ Ran
    /\ prevEngine.gameState.timeRemaining > 0
    /\ engine.gameState.timeRemaining = 0

\* C10: the step that brings timeRemaining to 0 sets the screen to
\* 'gameOver', emits exactly one GAME_OVER event with reason 'timeout' and
\* no other event, and leaves player, fish, score, fishCaught and
\* marcoCallsRemaining as they were
C10_TimeoutStep ==
    TimedOut
        => /\ engine.gameState.screen = "gameOver"
           /\ events = << Event("GAME_OVER", "timeout", 0, 0) >>
           /\ engine.player = prevEngine.player
           /\ engine.fish = prevEngine.fish
           /\ engine.gameState.score = prevEngine.gameState.score
           /\ engine.gameState.fishCaught = prevEngine.gameState.fishCaught
           /\ engine.gameState.marcoCallsRemaining
                = prevEngine.gameState.marcoCallsRemaining

\* the time ran out in a step with space and movement keys pressed, a Marco
\* call available, and the player moving onto a fish the step would have
\* caught
C10_Witness ==
    /\ TimedOut
    /\ lastCall.keys.space /\ lastCall.keys.right
    /\ canCallMarco(prevEngine.player,
                    prevEngine.gameState.marcoCallsRemaining)
    /\ prevEngine.player.velocity # vec(0, 0)
    /\ \E i \in DOMAIN prevEngine.fish :
          checkPlayerFishCollision(
              updatePlayer(prevEngine.player, lastCall.keys, prevEngine.config,
                           clampedDelta(prevEngine, lastCall.timestamp),
                           lastCall.timestamp),
              prevEngine.fish[i])

\* the number of fish of school that are not caught
RECURSIVE Uncaught(_)
Uncaught(school) ==
    IF school = <<>> THEN 0
    ELSE (IF Head(school).isCaught THEN 0 ELSE 1) + Uncaught(Tail(school))

\* the positions in events of the events of the given type
EventsOf(type) == { k \in DOMAIN events : events[k].type = type }

\* the positions in events of the GAME_OVER events with reason 'allCaught'
AllCaughtEvents ==
    { k \in EventsOf("GAME_OVER") : events[k].reason = "allCaught" }

\* the last call was the step, the time not having run out, in which the
\* last uncaught fish were caught
LastCatch ==
    /\ Ran
    /\ engine.gameState.timeRemaining > 0
    /\ Uncaught(prevEngine.fish) > 0
    /\ Uncaught(engine.fish) = 0

\* C11: in the step in which the number of uncaught fish goes from more than
\* 0 to 0, the time not having run out, screen becomes 'gameOver' and exactly
\* one GAME_OVER event with reason 'allCaught' is emitted, after the
\* FISH_CAUGHT events of the step; a step that leaves an uncaught fish emits
\* no GAME_OVER event with reason 'allCaught'
C11_AllCaughtEndsGame ==
    /\ LastCatch
          => /\ engine.gameState.screen = "gameOver"
             /\ Cardinality(AllCaughtEvents) = 1
             /\ EventsOf("FISH_CAUGHT") # {}
             /\ \A k \in AllCaughtEvents, c \in EventsOf("FISH_CAUGHT") : c < k
    /\ (Ran /\ Uncaught(engine.fish) > 0) => AllCaughtEvents = {}

\* the last two fish were caught in one step
C11_Witness ==
    /\ LastCatch
    /\ Uncaught(prevEngine.fish) = 2
    /\ Cardinality(EventsOf("FISH_CAUGHT")) = 2
    /\ events[Len(events)] = Event("GAME_OVER", "allCaught", 0, 0)

\* the last call was a step that went past the check of the timer
Continued == Ran /\ engine.gameState.timeRemaining > 0

\* the fish the player circle overlapped in the last step when the catches
\* were checked, the player and the fish having moved
Overlapped ==
    { i \in DOMAIN engine.fish :
        /\ prevEngine.fish[i].isActive /\ ~prevEngine.fish[i].isCaught
        /\ circlesCollide(
               [x |-> engine.player.position.x, y |-> engine.player.position.y,
                radius |-> engine.player.radius],
               [x |-> engine.fish[i].position.x,
                y |-> engine.fish[i].position.y,
                radius |-> engine.fish[i].radius]) }

\* the score of the last step once its wall penalty, if any, is taken
ScoreAfterWall ==
    IF EventsOf("WALL_COLLISION") # {}
    THEN Max(0, prevEngine.gameState.score - SCORING.wallPenalty)
    ELSE prevEngine.gameState.score

\* the points of a catch of fish in the last step:
\* floor(points * min(1 + 0.5 * comboCount, 3)
\*                * (1 + 2 * timeRemaining / gameDuration))
PointsWithBonus(fish) ==
    (FISH.sizes[fish.size].points
       * Min(2 + prevEngine.comboCount, 6)
       * (engine.config.gameDuration * 1000
            + 2 * engine.gameState.timeRemaining))
      \div (2 * engine.config.gameDuration * 1000)

\* C12, with the point value of the fish as the gain: a step in which the
\* player circle overlaps exactly one active uncaught fish emits exactly one
\* FISH_CAUGHT event, for that fish, and the score increases by
\* FISH.sizes[size].points
C12_CatchScoresPointValue ==
    (Continued /\ Cardinality(Overlapped) = 1)
        => \A i \in Overlapped :
              /\ Cardinality(EventsOf("FISH_CAUGHT")) = 1
              /\ \A k \in EventsOf("FISH_CAUGHT") :
                    events[k].fishId = engine.fish[i].id
              /\ engine.gameState.score - prevEngine.gameState.score
                    = FISH.sizes[engine.fish[i].size].points

\* C12: a step in which the player circle overlaps exactly one active
\* uncaught fish emits exactly one FISH_CAUGHT event, for that fish, and adds
\* to the score (as the wall penalty of the step left it) the fish's point
\* value times the combo multiplier and the time bonus, rounded down, which
\* is at least the point value
C12_CatchScoresWithBonus ==
    (Continued /\ Cardinality(Overlapped) = 1)
        => \A i \in Overlapped :
              /\ Cardinality(EventsOf("FISH_CAUGHT")) = 1
              /\ \A k \in EventsOf("FISH_CAUGHT") :
                    /\ events[k].fishId = engine.fish[i].id
                    /\ events[k].points = PointsWithBonus(engine.fish[i])
              /\ engine.gameState.score
                    = ScoreAfterWall + PointsWithBonus(engine.fish[i])
              /\ PointsWithBonus(engine.fish[i])
                    >= FISH.sizes[engine.fish[i].size].points
              /\ engine.fish[i].isCaught

\* one fish of two that were left was caught, for more than its point value
C12_Witness ==
    /\ Continued
    /\ Cardinality(Overlapped) = 1
    /\ Uncaught(prevEngine.fish) >= 2
    /\ Uncaught(engine.fish) = Uncaught(prevEngine.fish) - 1
    /\ engine.gameState.score > prevEngine.gameState.score + 150

\* in the last step the player, inside the arena before, was driven into
\* the right wall: updatePlayer put it at the wall and reversed its velocity
DrivenIntoWall ==
    /\ Continued
    /\ isInBounds(prevEngine.player.position, prevEngine.player.radius)
    /\ isInBounds(prevEngine.previousPlayerPosition, prevEngine.player.radius)
    /\ prevEngine.player.velocity.x > 0
    /\ lastCall.keys.right
    /\ engine.player.position.x = GAME_BOUNDS.maxX - engine.player.radius
    /\ engine.player.velocity.x < 0

\* C13: when the player, having been inside the arena, is driven into a
\* wall so that updatePlayer clamps its position and reverses and damps its
\* velocity, the step emits a WALL_COLLISION event and takes
\* SCORING.wallPenalty off the score, flooring at 0
C13_WallHitPenalised ==
    DrivenIntoWall
        => /\ EventsOf("WALL_COLLISION") # {}
           /\ EventsOf("FISH_CAUGHT") = {}
                => engine.gameState.score
                     = Max(0, prevEngine.gameState.score - SCORING.wallPenalty)

Eligible ==
    /\ ~prevEngine.player.isCalling
    /\ prevEngine.player.callCooldownRemaining <= 0
    /\ prevEngine.gameState.marcoCallsRemaining > 0

\* C16: MARCO_CALLED is emitted in a step exactly when the timer has not run
\* out, space is pressed and, at the start of the step, the player is not
\* calling, the cooldown is over and a call remains; such a step takes
\* exactly one call off marcoCallsRemaining and restarts the cooldown from
\* config.marcoCooldown; marcoCallsRemaining stays between 0 and
\* maxMarcoCalls
C16_MarcoCallWhenEligible ==
    /\ game = "marco"
          => /\ engine.gameState.marcoCallsRemaining >= 0
             /\ engine.gameState.marcoCallsRemaining
                   <= engine.config.maxMarcoCalls
    /\ Ran
          => /\ EventsOf("MARCO_CALLED") # {}
                   <=> (Continued /\ lastCall.keys.space /\ Eligible)
             /\ Cardinality(EventsOf("MARCO_CALLED")) <= 1
             /\ engine.gameState.marcoCallsRemaining
                   = prevEngine.gameState.marcoCallsRemaining
                       - Cardinality(EventsOf("MARCO_CALLED"))
             /\ EventsOf("MARCO_CALLED") # {}
                   => /\ engine.player.isCalling
                      /\ engine.player.lastCallTime = lastCall.timestamp
                      /\ engine.player.callCooldownRemaining
                            = Max(0, engine.config.marcoCooldown
                                       - clampedDelta(prevEngine,
                                                      lastCall.timestamp))

\* the last Marco call of a game was made
C16_Witness ==
    /\ Continued
    /\ lastCall.keys.space
    /\ prevEngine.gameState.marcoCallsRemaining = 1
    /\ engine.gameState.marcoCallsRemaining = 0
    /\ EventsOf("MARCO_CALLED") # {}
    /\ engine.player.isCalling
    /\ engine.player.callCooldownRemaining > 0

\* C17: a fish put into 'responding' by a Marco call goes to 'fleeing' once
\* its 500 ms pause has run out, unless it is caught first, and it never
\* goes from 'responding' directly to 'idle' or 'swimming'
C17_RespondingThenFleeing ==
    Continued =>
        \A i \in DOMAIN engine.fish :
            (/\ prevEngine.fish[i].currentBehavior = "responding"
             /\ ~engine.fish[i].isCaught)
                => /\ engine.fish[i].currentBehavior
                         \in {"responding", "fleeing"}
                   /\ (/\ EventsOf("MARCO_CALLED") = {}
                       /\ prevEngine.fish[i].behaviorTimer
                             - clampedDelta(prevEngine, lastCall.timestamp) <= 0)
                         => engine.fish[i].currentBehavior = "fleeing"

\* the combo count the first catch of the last step goes by: the catches
\* of the run that came before it, none if the last of them is more than
\* comboDuration back
ComboBefore ==
    IF lastCall.timestamp - prevEngine.lastCatchTime > SCORING.comboDuration
    THEN 0
    ELSE prevEngine.comboCount

\* C27: a catch is multiplied by min(1 + 0.5 * c, 3), c being the number
\* of catches that came right before it, each within comboDuration of the
\* one before: the multiplier is 1 for a catch more than 5000 ms after the
\* one before, the fish caught in one step count one after the other, and
\* the multiplier is never more than 3
C27_ComboMultiplier ==
    Continued =>
        \A k \in EventsOf("FISH_CAUGHT") :
            \A i \in DOMAIN engine.fish :
                engine.fish[i].id = events[k].fishId
                    => /\ events[k].points
                            = catchPoints(
                                  engine.fish[i],
                                  ComboBefore
                                    + Cardinality({ j \in EventsOf("FISH_CAUGHT") :
                                                      j < k }),
                                  engine.gameState.timeRemaining,
                                  engine.config.gameDuration)
                       /\ events[k].points
                            <= catchPoints(engine.fish[i], 4,
                                           engine.gameState.timeRemaining,
                                           engine.config.gameDuration)

\* C28: game over is final for the engine: an updateEngine call on a
\* state whose screen a step has set to 'gameOver' leaves score,
\* fishCaught, timeRemaining, player and fish as they are and emits no
\* event, so that no second GAME_OVER is emitted
C28_GameOverIsFinal ==
    (Stepped /\ prevEngine.gameState.screen = "gameOver")
        => /\ engine.gameState.score = prevEngine.gameState.score
           /\ engine.gameState.fishCaught = prevEngine.gameState.fishCaught
           /\ engine.gameState.timeRemaining
                 = prevEngine.gameState.timeRemaining
           /\ engine.player = prevEngine.player
           /\ engine.fish = prevEngine.fish
           /\ events = << >>

\* onGameEvent(event) of useGameState, called while engineStateRef.current is
\* ref: the entries it hands to saveHighScoreEntry (finalScore is what it
\* compares with highScore and hands to saveHighScore)
onGameEvent(ref, event) ==
    IF event.type = "GAME_OVER"
    THEN << [score |-> ref.gameState.score,
             fishCaught |-> ref.gameState.fishCaught,
             difficulty |-> ref.gameState.difficulty] >>
    ELSE << >>

\* the entries saved while updateEngine hands evs to onGameEvent
RECURSIVE savedEntries(_, _)
savedEntries(ref, evs) ==
    IF evs = << >> THEN << >>
    ELSE onGameEvent(ref, Head(evs)) \o savedEntries(ref, Tail(evs))

\* updateGame(keys, timestamp) of useGameState with engineStateRef.current =
\* ref: updateEngine runs, and calls onGameEvent, before the ref is assigned
updateGame(ref, keys, timestamp, rnd) ==
    IF ref.gameState.screen # "playing" THEN [ref |-> ref, saved |-> << >>]
    ELSE LET newState == updateEngine(ref, keys, timestamp, rnd)
         IN  [ref |-> newState.state,
              saved |-> savedEntries(ref, newState.events)]

\* the last call, as updateGame makes it
LastUpdateGame ==
    updateGame(prevEngine, lastCall.keys, lastCall.timestamp,
               CHOOSE rnd \in RandomDraws :
                   updateEngine(prevEngine, lastCall.keys, lastCall.timestamp,
                                rnd).state = engine)

\* C29: when a game ends, the score and fishCaught the GAME_OVER handler
\* compares with highScore and saves are those of the engine state the final
\* step returned, the points of a fish caught in that step included
C29_SavedScoreIsFinalScore ==
    (Ran /\ prevEngine.gameState.screen = "playing"
         /\ engine.gameState.screen = "gameOver")
        => /\ LastUpdateGame.ref = engine
           /\ LastUpdateGame.saved # << >>
           /\ \A i \in DOMAIN LastUpdateGame.saved :
                /\ LastUpdateGame.saved[i].score = engine.gameState.score
                /\ LastUpdateGame.saved[i].fishCaught
                       = engine.gameState.fishCaught

(***************************************************************************)
(* Properties of Pac-Man 3D                                                *)
(***************************************************************************)
\* the last callback was a frame taken while gameStatus was 'playing'
PlayedFrame == game = "pacman" /\ pmHist.op = "useFrame"
                           /\ pmPrev.gameStatus = "playing"

\* the numbers of the ghosts onPlayerHit was invoked for in the last frame
HitGhosts == { pmHist.hits[k].ghost : k \in DOMAIN pmHist.hits }

\* the numbers of the ghosts onGhostEaten was invoked for in the last frame
EatenGhosts == { pmHist.eatenCalls[k] : k \in DOMAIN pmHist.eatenCalls }

\* no fish id has had more than one FISH_CAUGHT event
FishCaughtOnce ==
    game = "marco" => \A i \in DOMAIN caughtEvents : caughtEvents[i] <= 1

\* C2, with ids counted over the whole game: at most one FISH_CAUGHT event
\* is emitted per fish id, and each pellet or power-pellet id adds its points
\* to the score at most once in a game
C2_CapturedOncePerId ==
    /\ FishCaughtOnce
    /\ game = "pacman" => pmHist.twiceGame = {}

\* C2: at most one FISH_CAUGHT event is emitted per fish id, and each pellet
\* or power-pellet id adds its points to the score at most once between two
\* creations of the pellets (by resetGame or nextLevel), also when
\* onPelletEaten / onPowerPelletEaten is invoked for the same id repeatedly
C2_CapturedOncePerLevel ==
    /\ FishCaughtOnce
    /\ game = "pacman" => pmHist.twiceLevel = {}

\* onPelletEaten has been invoked again for a pellet id that had added its
\* points, and the score has stayed
C2_Witness ==
    /\ game = "pacman"
    /\ pmHist.op = "repeat"
    /\ Len(pmHist.pelletCalls) = 1
    /\ pmHist.pelletCalls[1][1] = "pellet"
    /\ pmHist.pelletCalls[1] \in pmHist.scoredLevel
    /\ pm.score = pmPrev.score
    /\ pm.pelletsEaten = pmPrev.pelletsEaten

\* C3: in a playing frame in which an active frightened ghost is within
\* collision distance of pacman, onGhostEaten is invoked for that ghost,
\* onPlayerHit is not, and at the end of the frame the ghost's mode is
\* 'eaten'
C3_FrightenedGhostIsEaten ==
    PlayedFrame =>
        \A k \in DOMAIN pmHist.collisions :
            pmHist.collisions[k].mode = "frightened"
                => /\ pmHist.collisions[k].ghost \in EatenGhosts
                   /\ pmHist.collisions[k].ghost \notin HitGhosts
                   /\ pm.ghosts[pmHist.collisions[k].ghost].mode = "eaten"

\* the spawn ring with every ghost in 'scatter' mode
OnSpawnRing(ghosts) ==
    \A n \in DOMAIN ghosts :
        /\ ghosts[n].position = RingPoint(RingDirection(n - 1, Len(ghosts)))
        /\ ghosts[n].mode = "scatter"

\* what the setLives updater of a hit did: a life less, 'lost' when it was
\* the last one, and otherwise pacman at the centre and the ghosts back
HitApplied(update) ==
    /\ update.newLives = update.prev - 1
    /\ update.prev = 1 => update.gameStatus = "lost" /\ pm.gameStatus = "lost"
    /\ update.newLives > 0
         => /\ update.pacman.position = v3(0, 0)
            /\ update.pacman.velocity = v3(0, 0)
            /\ OnSpawnRing(update.ghosts)

\* C4: when an active ghost in 'scatter' or 'chase' mode is within collision
\* distance of pacman in a playing frame, then with pacman powered up lives
\* and gameStatus stay as they were, and otherwise the hit takes one life
\* and, if it was the last one, gameStatus is 'lost' after that frame; when
\* lives remain pacman is put at the centre and every ghost on the spawn
\* ring in 'scatter' mode
C4_HitTakesALife ==
    PlayedFrame =>
        /\ \A k \in DOMAIN pmHist.hits :
              /\ pmHist.hits[k].mode \in {"scatter", "chase"}
              /\ pmHist.hits[k].isPoweredUp
                   => /\ pm.lives = pmPrev.lives
                      /\ pm.gameStatus = pmPrev.gameStatus
                      /\ pmHist.updates = <<>>
              /\ ~pmHist.hits[k].isPoweredUp
                   => /\ Len(pmHist.updates) = Len(pmHist.hits)
                      /\ HitApplied(pmHist.updates[k])
                      /\ pm.lives = pmPrev.lives - Len(pmHist.hits)
        /\ pmHist.hits = <<>> => pm.lives = pmPrev.lives

\* a hit took the last but one life: pacman is at the centre and the ghosts
\* are back on the spawn ring
C4_Witness ==
    /\ PlayedFrame
    /\ Len(pmHist.hits) = 1
    /\ ~pmHist.hits[1].isPoweredUp
    /\ pmPrev.lives = 2 /\ pm.lives = 1
    /\ pm.gameStatus = "playing"
    /\ pm.pacman.position = v3(0, 0)

\* C5: lives is never negative, also after a frame in which several ghosts
\* that are not frightened overlap pacman, and it increases only by resetGame
C5_LivesNeverNegative ==
    game = "pacman"
        => /\ pm.lives >= 0
           /\ pm.lives > pmPrev.lives => pmHist.op = "resetGame"

\* C6: the k-th ghost eaten since the last power-pellet pickup awards
\* SCORES.ghost * 2^(k-1) points, also when two ghosts are eaten in one
\* frame or a ghost is eaten in the frame of the pickup
C6_ComboDoubles ==
    PlayedFrame =>
        \A j \in DOMAIN pmHist.awards :
            pmHist.awards[j].points
                = SCORES.ghost * Pow2(pmHist.awards[j].k - 1)

\* C7: while gameStatus is 'ready', 'paused' or 'lost' nothing but resetGame
\* changes pacman, the pellets or a ghost's position, mode or speed, also
\* when a ghost was eaten less than 2 s before the status changed
C7_FrozenUnlessPlaying ==
    (/\ game = "pacman"
     /\ pmPrev.gameStatus \in {"ready", "paused", "lost"}
     /\ pmHist.op # "resetGame")
        => /\ pm.pacman = pmPrev.pacman
           /\ pm.pellets = pmPrev.pellets
           /\ pm.powerPellets = pmPrev.powerPellets
           /\ \A n \in DOMAIN pm.ghosts :
                 /\ pm.ghosts[n].position = pmPrev.ghosts[n].position
                 /\ pm.ghosts[n].mode = pmPrev.ghosts[n].mode
                 /\ pm.ghosts[n].speed = pmPrev.ghosts[n].speed

\* a circle of the Marco Polo arena lies inside GAME_BOUNDS
InsideArena(position, radius) ==
    /\ GAME_BOUNDS.minX + radius <= position.x
    /\ position.x <= GAME_BOUNDS.maxX - radius
    /\ GAME_BOUNDS.minY + radius <= position.y
    /\ position.y <= GAME_BOUNDS.maxY - radius

\* a sphere of the Pac-Man world lies inside worldBounds
InsideWorld(position, radius) ==
    /\ Abs(position.x) <= worldBounds.x - radius
    /\ Abs(position.z) <= worldBounds.z - radius

\* C15: after every step each moving entity lies inside the arena inset by
\* its radius, whatever the inputs and the deltas: in Marco Polo the player
\* and every fish, in Pac-Man pacman and every active ghost
C15_InsideTheArena ==
    /\ game = "marco"
          => /\ InsideArena(engine.player.position, engine.player.radius)
             /\ \A i \in DOMAIN engine.fish :
                   InsideArena(engine.fish[i].position, engine.fish[i].radius)
    /\ game = "pacman"
          => /\ InsideWorld(pm.pacman.position, pm.pacman.radius)
             /\ \A n \in DOMAIN pm.ghosts :
                   pm.ghosts[n].isActive
                      => InsideWorld(pm.ghosts[n].position, pm.ghosts[n].radius)

\* pacman, moving toward the wall, was stopped at it by a playing frame in
\* which the ghosts moved
C15_Witness ==
    /\ PlayedFrame
    /\ pmPrev.pacman.velocity.x < 0
    /\ pmPrev.pacman.position.x > -worldBounds.x + pm.pacman.radius
    /\ pm.pacman.position.x = -worldBounds.x + pm.pacman.radius
    /\ \E n \in DOMAIN pm.ghosts :
          pm.ghosts[n].isActive
             /\ pm.ghosts[n].position # pmPrev.ghosts[n].position

\* the power-pellet pick-ups of the last callback
PickUps == { pmHist.powerUps[k] : k \in DOMAIN pmHist.powerUps }

\* the ghosts a pick-up found active and not eaten
Frightenable(p) ==
    { n \in DOMAIN p.before :
        p.before[n].isActive /\ p.before[n].mode # "eaten" }

\* C18: picking up a power pellet powers pacman up until now +
\* frightenedDuration and makes every ghost that is active and not eaten
\* frightened at half its base speed, whatever the schedule says: at the
\* end of the frame of the pick-up such a ghost is frightened still unless
\* pacman ran into it; the ghosts that are inactive or eaten keep mode and
\* speed
C18_PowerPelletFrightens ==
    game = "pacman" =>
        \A p \in PickUps :
            /\ p.pacman.isPoweredUp
            /\ p.pacman.powerUpEndTime = p.now + config.frightenedDuration
            /\ \A n \in Frightenable(p) :
                  /\ p.ghosts[n].mode = "frightened"
                  /\ 2 * p.ghosts[n].speed = p.ghosts[n].baseSpeed
                  /\ (/\ PlayedFrame
                      /\ pm.level = pmPrev.level
                      /\ n \notin EatenGhosts)
                        => /\ pm.ghosts[n].mode = "frightened"
                           /\ 2 * pm.ghosts[n].speed = pm.ghosts[n].baseSpeed
            /\ \A n \in DOMAIN p.before \ Frightenable(p) :
                  /\ p.ghosts[n].mode = p.before[n].mode
                  /\ p.ghosts[n].speed = p.before[n].speed

\* a frame in which pacman picked up a power pellet while the schedule said
\* 'chase', with a chasing ghost and an eaten one about
C18_Witness ==
    /\ PlayedFrame
    /\ cycleMode(pm.now - pm.gameStartTime) = "chase"
    /\ \E p \in PickUps :
          /\ \E n \in Frightenable(p) : p.before[n].mode = "chase"
          /\ \E n \in DOMAIN p.before : p.before[n].mode = "eaten"

\* the power window was over when the last callback began
WindowOver == pm.now > pmPrev.pacman.powerUpEndTime

\* C19: in the first playing frame with now > powerUpEndTime, isPoweredUp
\* becomes false and every ghost then frightened reverts to 'chase' at its
\* base speed, the other ghosts staying as they are; a playing frame that
\* begins with the window over ends with pacman powered up or with a
\* frightened ghost only if a power pellet is picked up in it
C19_PowerUpRunsOut ==
    game = "pacman" =>
        /\ pmHist.expiries # <<>>
               <=> PlayedFrame /\ pmPrev.pacman.isPoweredUp /\ WindowOver
        /\ \A k \in DOMAIN pmHist.expiries :
              LET e == pmHist.expiries[k]
              IN  /\ ~e.pacman.isPoweredUp
                  /\ \A n \in DOMAIN e.before :
                        IF e.before[n].mode = "frightened"
                        THEN /\ e.ghosts[n].mode = "chase"
                             /\ e.ghosts[n].speed = e.ghosts[n].baseSpeed
                        ELSE e.ghosts[n] = e.before[n]
        /\ (PlayedFrame /\ WindowOver /\ PickUps = {})
              => /\ ~pm.pacman.isPoweredUp
                 /\ \A n \in DOMAIN pm.ghosts :
                       pm.ghosts[n].mode # "frightened"

\* a power-up ran out in a frame that began with a frightened ghost and a
\* ghost of another mode
C19_Witness ==
    /\ PlayedFrame
    /\ PickUps = {}
    /\ \E k \in DOMAIN pmHist.expiries :
          /\ \E n \in DOMAIN pmPrev.ghosts :
                /\ pmPrev.ghosts[n].mode = "frightened"
                /\ pmHist.expiries[k].before[n].mode = "frightened"
          /\ \E n \in DOMAIN pmPrev.ghosts :
                pmPrev.ghosts[n].mode # "frightened"

\* C20: at the end of every playing frame each active ghost that is neither
\* frightened nor eaten has the mode the schedule gives for the time elapsed
\* since the start of the game, and the schedule leaves a frightened ghost
\* frightened
C20_ModeFollowsSchedule ==
    (PlayedFrame /\ pm.level = pmPrev.level) =>
        \A n \in DOMAIN pm.ghosts :
            /\ (/\ pm.ghosts[n].isActive
                /\ pm.ghosts[n].mode \notin {"frightened", "eaten"})
                  => pm.ghosts[n].mode = cycleMode(pm.now - pm.gameStartTime)
            /\ (/\ pmPrev.ghosts[n].mode = "frightened"
                /\ pmHist.expiries = <<>>
                /\ n \notin EatenGhosts)
                  => pm.ghosts[n].mode = "frightened"

\* the time the round under way began: Start or Play Again for level 1,
\* the call of nextLevel for the levels after it
RoundStart == IF pm.level = 1 THEN pm.gameStartTime ELSE pmHist.levelStart

\* C21: a ghost becomes active only in a playing frame in which the time
\* since the start of the round exceeds its spawnDelay; while inactive it
\* does not move, neither hits pacman nor is eaten, and no power pellet
\* frightens it; once active it stays active while the ghosts are the same
C21_ActiveAfterSpawnDelay ==
    (game = "pacman" /\ pm.ghostGen = pmPrev.ghostGen) =>
        \A n \in DOMAIN pm.ghosts :
            /\ (~pmPrev.ghosts[n].isActive /\ pm.ghosts[n].isActive)
                  => /\ PlayedFrame
                     /\ pm.now - RoundStart > pm.ghosts[n].spawnDelay
            /\ ~pm.ghosts[n].isActive
                  => /\ pm.ghosts[n].position = pmPrev.ghosts[n].position
                     /\ pm.ghosts[n].mode # "frightened"
                     /\ n \notin HitGhosts \cup EatenGhosts
            /\ pmPrev.ghosts[n].isActive => pm.ghosts[n].isActive

\* the changes of gameStatus an operation may make
StatusSteps ==
    { << "ready", "playing" >>, << "playing", "paused" >>,
      << "paused", "playing" >>, << "playing", "lost" >> }

Range(seq) == { seq[k] : k \in DOMAIN seq }

\* C23: with the fish, of radius up to 30, inserted by addFishArray at the
\* positions they have, SpatialGrid.checkPlayerCollision(player) returns
\* the same set of fish as checkAllPlayerFishCollisions(player, fishArray)
C23_GridAgreesWithBruteForce ==
    (game = "grid" /\ gridOp.name = "checkPlayerCollision")
        => Range(collided)
             = Range(checkAllPlayerFishCollisions(gridPlayer, gridFish))

\* checkPlayerCollision returned a fish of a cell other than the player's,
\* the other fish being in the grid and out of reach
C23_Witness ==
    /\ game = "grid"
    /\ gridOp.name = "checkPlayerCollision"
    /\ \E i \in Range(collided) :
          getCellKey(gridFish[i].position.x, gridFish[i].position.y)
             # getCellKey(gridPlayer.position.x, gridPlayer.position.y)
    /\ \E i \in DOMAIN gridFish :
          /\ i \notin Range(collided)
          /\ gridFish[i].isActive /\ ~gridFish[i].isCaught

\* the ghosts onGhostEaten gave points for in the last frame
AwardedGhosts == { pmHist.awards[k].ghost : k \in DOMAIN pmHist.awards }

\* the ghosts whose respawn timeout the last callback ran
Respawned ==
    IF pmHist.op = "respawn"
    THEN { t.ghost : t \in { u \in pmPrev.timers \ pm.timers :
                                 u.gen = pmPrev.ghostGen } }
    ELSE {}

\* C24: a ghost that has been eaten keeps mode 'eaten', does not move,
\* is in no collision and is left alone by the schedule until its respawn
\* timeout runs, 2 s after it was eaten; the timeout puts it on the spawn
\* ring, frightened at half its base speed if pacman is powered up then,
\* and in 'chase' at its base speed otherwise
C24_EatenUntilRespawn ==
    (game = "pacman" /\ pm.ghostGen = pmPrev.ghostGen) =>
        \A n \in DOMAIN pm.ghosts :
            /\ (PlayedFrame /\ n \in AwardedGhosts)
                  => pm.ghosts[n].mode = "eaten"
            /\ (pmPrev.ghosts[n].mode = "eaten" /\ n \notin Respawned)
                  => /\ pm.ghosts[n].mode = "eaten"
                     /\ pm.ghosts[n].position = pmPrev.ghosts[n].position
                     /\ n \notin HitGhosts \cup EatenGhosts
            /\ n \in Respawned
                  => /\ pm.ghosts[n].position
                           \in { RingPoint(draw.angle) : draw \in PacDraws }
                     /\ pm.ghosts[n].mode =
                           IF pmPrev.pacman.isPoweredUp THEN "frightened"
                           ELSE "chase"
                     /\ 2 * pm.ghosts[n].speed =
                           IF pmPrev.pacman.isPoweredUp
                           THEN pm.ghosts[n].baseSpeed
                           ELSE 2 * pm.ghosts[n].baseSpeed
                     /\ \A t \in pmPrev.timers \ pm.timers :
                           pm.now >= t.due

\* C25: the speed of a ghost is discounted only while it is frightened: a
\* ghost in 'scatter' or 'chase' mode has speed = baseSpeed and a ghost in
\* 'frightened' mode has half of it
C25_SpeedFollowsMode ==
    game = "pacman" =>
        \A n \in DOMAIN pm.ghosts :
            /\ pm.ghosts[n].mode \in {"scatter", "chase"}
                  => pm.ghosts[n].speed = pm.ghosts[n].baseSpeed
            /\ pm.ghosts[n].mode = "frightened"
                  => 2 * pm.ghosts[n].speed = pm.ghosts[n].baseSpeed

\* the points onGhostEaten gave in the last frame, from award k on
RECURSIVE AwardedFrom(_)
AwardedFrom(k) ==
    IF k > Len(pmHist.awards) THEN 0
    ELSE pmHist.awards[k].points + AwardedFrom(k + 1)

\* the last frame was a playing frame that ate every pellet and power
\* pellet there was left
Cleared ==
    /\ PlayedFrame
    /\ Len(pmPrev.pellets) + Len(pmPrev.powerPellets) > 0
    /\ \A k \in DOMAIN pmPrev.pellets :
          pmPrev.pellets[k].id \in Range(pmHist.pelletCalls)
    /\ \A k \in DOMAIN pmPrev.powerPellets :
          pmPrev.powerPellets[k].id \in Range(pmHist.pelletCalls)

\* nextLevel has run once since the last callback began: the next level
\* with its bonus, a new board and new ghosts, pacman at the centre and not
\* powered up, the game going on
LevelledUp ==
    /\ pm.level = pmPrev.level + 1
    /\ pm.score = pmPrev.score
                    + SCORES.pellet * Len(pmPrev.pellets)
                    + SCORES.powerPellet * Len(pmPrev.powerPellets)
                    + AwardedFrom(1) + SCORES.levelComplete
    /\ Len(pm.pellets) = config.pelletCount
    /\ Len(pm.powerPellets) = config.powerPelletCount
    /\ pm.ghostGen = pmPrev.ghostGen + 1
    /\ \A n \in DOMAIN pm.ghosts :
          /\ pm.ghosts[n].mode = "scatter"
          /\ pm.ghosts[n].isActive <=> n = 1
          /\ pm.ghosts[n].position
                = RingPoint(RingDirection(n - 1, Len(pm.ghosts)))
    /\ pm.pacman.position = v3(0, 0)
    /\ ~pm.pacman.isPoweredUp
    /\ pm.gameStatus = "playing"

\* the level changes by nextLevel only, in a frame that clears the board
LevelUpOnlyOnClear ==
    (game = "pacman" /\ pm.level # pmPrev.level /\ pmHist.op # "resetGame")
        => Cleared /\ pm.level = pmPrev.level + 1

\* C26, as stated: a playing frame that eats the last pellet or power
\* pellet runs nextLevel exactly once, with lives unchanged and gameStatus
\* staying 'playing'
C26_LevelUpOnClear ==
    /\ LevelUpOnlyOnClear
    /\ Cleared => LevelledUp /\ pm.lives = pmPrev.lives

\* C26, with the hits of the frame of the clear taken into account: unless
\* a ghost takes pacman's last life in that frame, which leaves the game
\* lost on an empty board in the same level, nextLevel runs exactly once,
\* and lives goes down by the hits of that frame only
C26_LevelUpUnlessLost ==
    /\ LevelUpOnlyOnClear
    /\ Cleared =>
          IF pm.gameStatus = "lost"
          THEN /\ pmHist.updates # << >>
               /\ pm.lives <= 0
               /\ pm.level = pmPrev.level
               /\ Len(pm.pellets) + Len(pm.powerPellets) = 0
          ELSE /\ LevelledUp
               /\ pm.lives = pmPrev.lives - Len(pmHist.updates)

\* a frame ate the last pellet with no ghost near and level 2 began
C26_Witness ==
    /\ Cleared
    /\ pmHist.updates = << >>
    /\ pmPrev.level = 1 /\ pm.level = 2
    /\ pm.score = pmPrev.score + SCORES.pellet + SCORES.levelComplete
    /\ pm.lives = pmPrev.lives

\* some ghost of the current ghost collection is frightened
SomeGhostFrightened ==
    \E n \in DOMAIN pm.ghosts : pm.ghosts[n].mode = "frightened"

\* C30: in every reachable state, if a ghost of the current ghost collection
\* has mode 'frightened' then pacman.isPoweredUp is true, whatever the
\* interleaving of power-pellet pickups, power-up expiry, respawn timers,
\* player hits, nextLevel and resetGame
C30_FrightenedOnlyWhilePoweredUp ==
    game = "pacman" => (SomeGhostFrightened => pm.pacman.isPoweredUp)

\* a respawn timer has brought a ghost back while pacman was not powered up,
\* after a power pellet was taken and the power-up ran out
C30_Witness ==
    /\ game = "pacman"
    /\ pmHist.op = "respawn"
    /\ pm.ghosts # pmPrev.ghosts
    /\ ~pm.pacman.isPoweredUp
    /\ ~SomeGhostFrightened
    /\ \E n \in DOMAIN pm.ghosts :
          pmPrev.ghosts[n].mode = "eaten" /\ pm.ghosts[n].mode = "chase"

====
